---- MODULE Spec2Model ----
(***************************************************************************)
(* AeroSocket: the server Connection state machine (connection.rs), the    *)
(* frame codec it reads with (frame.rs), and the accept loop with its      *)
(* connection registry and rate limiter (server.rs, rate_limit.rs).        *)
(*                                                                         *)
(* Four specifications share the module:                                   *)
(*   SpecConn     one server Connection over a byte stream, driven by its  *)
(*                owner (set_stream, send, next, close) and by the peer;   *)
(*   SpecServer   the accept loop, the per-connection tasks it spawns, the *)
(*                registry and the rate limiter;                           *)
(*   SpecLimiter  the rate limiter under direct calls;                     *)
(*   SpecRegistry the registry of handles with its statistics, the idle    *)
(*                sweep and the broadcasts.                                *)
(***************************************************************************)
EXTENDS Integers, Sequences, FiniteSets, TLC

VARIABLES
    \* ---- Connection (aerosocket-server/src/connection.rs) ----
    state,           \* ConnectionState
    stream,          \* TRUE: stream is Some(..), FALSE: None
    metadata,        \* the counters of ConnectionMetadata
    pc,              \* where next() is suspended: "idle" (not in next), "hdr", "more"
    frame_buffer,    \* next(): local frame_buffer
    message_buffer,  \* next(): local message_buffer
    opcode,          \* next(): local opcode (Option<Opcode>)
    ret,             \* outcome of the last operation on the connection
    ops,             \* number of operations the owner has started
    \* ---- the byte stream under the connection ----
    inbound,         \* bytes the peer wrote that the connection has not read
    peerClosed,      \* the peer shut down its writing side (EOF after inbound)
    outbound,        \* the byte strings written by write_all, in order
    peerFrames,      \* the frames the peer wrote, in order
    \* ---- accept loop, registry, rate limiter ----
    config,          \* ServerConfig fields the accept loop reads
    now,             \* Instant::now(), in seconds
    request_counters,    \* RateLimiter.request_counters
    connection_counters, \* RateLimiter.connection_counters
    connections,     \* ConnectionManager.connections (the ids registered)
    next_id,         \* ConnectionManager.next_id
    acceptPc,        \* where the accept loop is in its iteration
    acceptIp,        \* remote address of the stream the loop is handling
    checkPre,        \* the peer's counters when check_connection was entered
    request_ok,      \* check_connection: local request_ok
    tasks,           \* the spawned handle_connection tasks
    accepted,        \* number of streams accepted so far
    \* ---- direct callers of the rate limiter ----
    limiterLog,      \* what the calls of the rate limiter returned so far
    \* ---- the registry with its handles (server.rs, manager.rs) ----
    handles,         \* the ConnectionHandle of every id handed out, with its Connection
    stats,           \* ManagerStats
    broadcast,       \* the broadcast call in progress
    sweeps,          \* number of runs of cleanup_idle_connections
    \* ---- the shutdown signal, and the core library called directly ----
    shutdown,        \* the future given to serve_with_graceful_shutdown has completed
    codec,           \* a buffer given to Frame::parse and what the call returned
    handshake,       \* a request read by perform_handshake and how it was taken
    assembler,       \* a MessageAssembler and what its last feed_frame returned
    \* ---- further parts of the library, called directly ----
    negotiation,     \* a subprotocol negotiation by create_server_handshake
    client,          \* a ClientConnection and the byte strings it wrote
    closeAll,        \* the close_all_connections call in progress
    timer,           \* a Connection asked for its timeout, with the answers
    exchange,        \* a client and a server in the opening handshake
    parser,          \* a FrameParser fed the encoding of frames in chunks
    reg              \* the registry's map lock, the handles' locks and the operations under way

connVars == <<state, stream, metadata, pc, frame_buffer, message_buffer, opcode, ret, ops>>
wireVars == <<inbound, peerClosed, outbound, peerFrames>>
serverVars == <<config, now, request_counters, connection_counters, connections,
                next_id, acceptPc, acceptIp, checkPre, request_ok, tasks, accepted>>
apiVars == <<limiterLog, handles, stats, broadcast, sweeps>>
extVars == <<shutdown, codec, handshake, assembler>>
libVars == <<negotiation, client, closeAll, timer, exchange, parser, reg>>
vars == <<connVars, wireVars, serverVars, apiVars, extVars, libVars>>

----
\* Bounds of the model.
MaxPayloadLen == 2
MaxPeerFrames == 1
MaxOps == 3

----
\* Bytes and the frame codec (aerosocket-core/src/frame.rs, protocol.rs).

FIN_BIT == 128
RSV1_BIT == 64
RSV2_BIT == 32
RSV3_BIT == 16
OPCODE_MASK == 15
MASK_BIT == 128
PAYLOAD_LEN_MASK == 127
PAYLOAD_LEN_16 == 126
PAYLOAD_LEN_64 == 127
U16_MAX == 65535

Min(a, b) == IF a < b THEN a ELSE b

B2N(b) == IF b THEN 1 ELSE 0

\* (byte & bit) != 0 for a single-bit constant
BitSet(byte, bit) == (byte \div bit) % 2 = 1

RECURSIVE XorBits(_, _, _)
XorBits(a, b, n) ==
    IF n = 0 THEN 0
    ELSE (((a % 2) + (b % 2)) % 2) + (2 * XorBits(a \div 2, b \div 2, n - 1))

Xor(a, b) == XorBits(a, b, 8)

mask_bytes(data, mask) ==
    [i \in 1..Len(data) |-> Xor(data[i], mask[((i - 1) % 4) + 1])]

OpcodeNames == {"Continuation", "Text", "Binary", "Close", "Ping", "Pong"}

OpcodeValue(op) ==
    CASE op = "Continuation" -> 0
      [] op = "Text" -> 1
      [] op = "Binary" -> 2
      [] op = "Close" -> 8
      [] op = "Ping" -> 9
      [] op = "Pong" -> 10

\* Opcode::from: None for every value that is not one of the six opcodes
OpcodeFrom(v) ==
    CASE v = 0 -> "Continuation"
      [] v = 1 -> "Text"
      [] v = 2 -> "Binary"
      [] v = 8 -> "Close"
      [] v = 9 -> "Ping"
      [] v = 10 -> "Pong"
      [] OTHER -> "None"

is_control(op) == op \in {"Close", "Ping", "Pong"}
is_data(op) == op \in {"Text", "Binary", "Continuation"}

NoMask == <<>>

\* Frame::new: fin set, no reserved bits, unmasked
FrameNew(op, payload) ==
    [fin |-> TRUE, rsv |-> <<FALSE, FALSE, FALSE>>, opcode |-> op,
     masked |-> FALSE, mask |-> NoMask, payload |-> payload]

put_u16(n) == <<(n \div 256) % 256, n % 256>>

RECURSIVE put_be(_, _)
put_be(n, k) == IF k = 0 THEN <<>> ELSE Append(put_be(n \div 256, k - 1), n % 256)

put_u64(n) == put_be(n, 8)

RECURSIVE get_be(_)
get_be(bytes) ==
    IF bytes = <<>> THEN 0
    ELSE (256 * get_be(SubSeq(bytes, 1, Len(bytes) - 1))) + bytes[Len(bytes)]

NoCode == -1

\* Frame::close(code, reason)
FrameClose(code, reason) ==
    FrameNew("Close", (IF code = NoCode THEN <<>> ELSE put_u16(code)) \o reason)

\* Frame::mask(true) with the key `key` standing for rand::random()
FrameMask(f, key) ==
    IF ~f.masked
    THEN [f EXCEPT !.payload = mask_bytes(f.payload, key), !.masked = TRUE, !.mask = key]
    ELSE f

\* Frame::write_to / Frame::to_bytes
to_bytes(f) ==
    LET first_byte == (B2N(f.fin) * FIN_BIT) + (B2N(f.rsv[1]) * RSV1_BIT)
                      + (B2N(f.rsv[2]) * RSV2_BIT) + (B2N(f.rsv[3]) * RSV3_BIT)
                      + OpcodeValue(f.opcode)
        payload_len == Len(f.payload)
        mask_bit == B2N(f.masked) * MASK_BIT
        lenBytes == IF payload_len < 126 THEN <<mask_bit + payload_len>>
                    ELSE IF payload_len <= U16_MAX
                         THEN <<mask_bit + PAYLOAD_LEN_16>> \o put_u16(payload_len)
                         ELSE <<mask_bit + PAYLOAD_LEN_64>> \o put_u64(payload_len)
    IN  <<first_byte>> \o lenBytes \o f.mask \o f.payload

NoFrame == FrameNew("None", <<>>)

ParseErr(e, rest) == [ok |-> FALSE, err |-> e, frame |-> NoFrame, rest |-> rest]

\* Frame::parse(buf, compression_enabled): the frame or the error, and what is
\* left of buf.  The optional inflate step (feature "compression") is not
\* modelled: no connection of the model negotiates compression.
Parse(buf, compression_enabled) ==
    IF Len(buf) < 2 THEN ParseErr("InsufficientData", buf)
    ELSE
    LET first_byte == buf[1]
        fin == BitSet(first_byte, FIN_BIT)
        rsv1 == BitSet(first_byte, RSV1_BIT)
        rsv2 == BitSet(first_byte, RSV2_BIT)
        rsv3 == BitSet(first_byte, RSV3_BIT)
        op == OpcodeFrom(first_byte % (OPCODE_MASK + 1))
        second_byte == buf[2]
        masked == BitSet(second_byte, MASK_BIT)
        len7 == second_byte % (PAYLOAD_LEN_MASK + 1)
    IN
    IF op = "None" THEN ParseErr("InvalidOpcode", buf)
    ELSE IF len7 = PAYLOAD_LEN_16 /\ Len(buf) < 4 THEN ParseErr("InsufficientData", buf)
    ELSE IF len7 = PAYLOAD_LEN_64 /\ Len(buf) < 10 THEN ParseErr("InsufficientData", buf)
    ELSE
    LET payload_len == IF len7 = PAYLOAD_LEN_16 THEN get_be(SubSeq(buf, 3, 4))
                       ELSE IF len7 = PAYLOAD_LEN_64 THEN get_be(SubSeq(buf, 3, 10))
                       ELSE len7
        pos0 == IF len7 = PAYLOAD_LEN_16 THEN 4
                ELSE IF len7 = PAYLOAD_LEN_64 THEN 10 ELSE 2
    IN
    IF masked /\ Len(buf) < pos0 + 4 + payload_len THEN ParseErr("InsufficientData", buf)
    ELSE
    LET mask == IF masked THEN SubSeq(buf, pos0 + 1, pos0 + 4) ELSE NoMask
        pos == IF masked THEN pos0 + 4 ELSE pos0
    IN
    IF Len(buf) < pos + payload_len THEN ParseErr("InsufficientData", buf)
    ELSE
    LET raw == SubSeq(buf, pos + 1, pos + payload_len)
        payload == IF masked THEN mask_bytes(raw, mask) ELSE raw
        frame_len == pos + payload_len
        rest == SubSeq(buf, frame_len + 1, Len(buf))
    IN
    \* the buffer is advanced before the frame is validated
    IF is_control(op) /\ ~fin THEN ParseErr("FragmentedControlFrame", rest)
    ELSE IF (rsv1 /\ ~(compression_enabled /\ is_data(op))) \/ rsv2 \/ rsv3
         THEN ParseErr("ReservedBitsSet", rest)
    ELSE [ok |-> TRUE, err |-> "none",
          frame |-> [fin |-> fin, rsv |-> <<rsv1, rsv2, rsv3>>, opcode |-> op,
                     masked |-> masked, mask |-> mask, payload |-> payload],
          rest |-> rest]

----
\* Messages (aerosocket-core/src/message.rs) and the Connection
\* (aerosocket-server/src/connection.rs).

ConnectionStates == {"Connecting", "Connected", "Closing", "Closed"}

\* position of a state in the order Connecting, Connected, Closing, Closed
StateRank(s) ==
    CASE s = "Connecting" -> 0
      [] s = "Connected" -> 1
      [] s = "Closing" -> 2
      [] s = "Closed" -> 3

\* Message: kind, close code (NoCode for None) and the bytes of its text, data or reason
Msg(kind, code, data) == [kind |-> kind, code |-> code, data |-> data]
NoMsg == Msg("None", NoCode, <<>>)

REPLACEMENT_CHARACTER == <<239, 191, 189>>

\* String::from_utf8_lossy on byte strings that hold no UTF-8 continuation
\* byte (0x80..0xBF): an ASCII byte is kept, any other byte is an invalid
\* sequence of length one and becomes U+FFFD.
RECURSIVE from_utf8_lossy(_)
from_utf8_lossy(bytes) ==
    IF bytes = <<>> THEN <<>>
    ELSE (IF bytes[1] < 128 THEN <<bytes[1]>> ELSE REPLACEMENT_CHARACTER)
         \o from_utf8_lossy(Tail(bytes))

\* send(): "Convert message to WebSocket frame"
MessageFrame(m) ==
    CASE m.kind = "Text" -> FrameNew("Text", m.data)
      [] m.kind = "Binary" -> FrameNew("Binary", m.data)
      [] m.kind = "Ping" -> FrameNew("Ping", m.data)
      [] m.kind = "Pong" -> FrameNew("Pong", m.data)
      [] m.kind = "Close" -> FrameClose(m.code, m.data)

\* what an operation saw when it was called
Pre == [out |-> Len(outbound), messages_sent |-> metadata.messages_sent,
        bytes_sent |-> metadata.bytes_sent,
        messages_received |-> metadata.messages_received]

\* err is the kind of the error returned: "Io" for an error of the stream,
\* "Other" for an Error::Other the connection builds, "none" without an error
Ret(op, res, msg) ==
    [op |-> op, res |-> res, err |-> "none", from |-> state, msg |-> msg, pre |-> Pre]

RetErr(op, e) == [Ret(op, "Err", NoMsg) EXCEPT !.err = e]

\* the values next() returns keep what the call saw when it began
Return(res, msg) == [ret EXCEPT !.res = res, !.msg = msg]

ReturnErr(e) == [Return("Err", NoMsg) EXCEPT !.err = e]

Idle == pc = "idle" /\ ops < MaxOps

\* Connection::new / Connection::with_stream
ConnInit ==
    /\ \/ state = "Connecting" /\ stream = FALSE
       \/ state = "Connected" /\ stream = TRUE
    /\ metadata = [messages_sent |-> 0, messages_received |-> 0, bytes_sent |-> 0,
                   bytes_received |-> 0, compression_negotiated |-> FALSE]
    /\ pc = "idle"
    /\ frame_buffer = <<>>
    /\ message_buffer = <<>>
    /\ opcode = "None"
    /\ ret = [op |-> "new", res |-> "Ok", err |-> "none", from |-> state, msg |-> NoMsg,
              pre |-> [out |-> 0, messages_sent |-> 0, bytes_sent |-> 0,
                       messages_received |-> 0]]
    /\ ops = 0

WireInit ==
    /\ inbound = <<>>
    /\ peerClosed = FALSE
    /\ outbound = <<>>
    /\ peerFrames = <<>>

\* Connection::set_stream (the stream handed in is in the condition the wire
\* variables describe)
SetStream ==
    /\ Idle
    /\ stream' = TRUE
    /\ state' = "Connected"
    /\ ret' = Ret("set_stream", "Ok", NoMsg)
    /\ ops' = ops + 1
    /\ UNCHANGED <<metadata, pc, frame_buffer, message_buffer, opcode, wireVars,
                   serverVars, apiVars, extVars, libVars>>

\* the outcomes of one call of the stream: it succeeds or returns an I/O error
IoOutcomes == {"ok", "err"}

\* the body of Connection::send, called as operation `op`; io is the outcome
\* of write_all and flush
SendBody(op, m, io) ==
    IF stream
    THEN LET frame_bytes == to_bytes(MessageFrame(m)) IN
         IF io = "err"
         THEN /\ ret' = RetErr(op, "Io")
              /\ UNCHANGED <<outbound, metadata>>
         ELSE /\ outbound' = Append(outbound, frame_bytes)
              /\ metadata' = [metadata EXCEPT
                                !.messages_sent = @ + 1,
                                !.bytes_sent = @ + Len(frame_bytes)]
              /\ ret' = Ret(op, "Ok", NoMsg)
    ELSE /\ io = "ok"
         /\ ret' = RetErr(op, "Other")
         /\ UNCHANGED <<outbound, metadata>>

\* Connection::send
Send(m) ==
    /\ Idle
    /\ ops' = ops + 1
    /\ \E io \in IoOutcomes : SendBody("send", m, io)
    /\ UNCHANGED <<state, stream, pc, frame_buffer, message_buffer, opcode,
                   inbound, peerClosed, peerFrames, serverVars, apiVars, extVars, libVars>>

\* Connection::close
Close(code, reason) ==
    /\ Idle
    /\ ops' = ops + 1
    /\ state' = "Closing"
    /\ \E io \in IoOutcomes : SendBody("close", Msg("Close", code, reason), io)
    /\ UNCHANGED <<stream, pc, frame_buffer, message_buffer, opcode,
                   inbound, peerClosed, peerFrames, serverVars, apiVars, extVars, libVars>>

\* Connection::next up to its first read
NextBegin ==
    /\ Idle
    /\ ops' = ops + 1
    /\ IF stream
       THEN /\ pc' = "hdr"
            /\ ret' = Ret("next", "pending", NoMsg)
       ELSE /\ pc' = "idle"
            /\ ret' = RetErr("next", "Other")
    /\ frame_buffer' = <<>>
    /\ message_buffer' = <<>>
    /\ opcode' = "None"
    /\ UNCHANGED <<state, stream, metadata, wireVars, serverVars, apiVars, extVars, libVars>>

\* next(): the Close arm
CloseMessageOf(payload) ==
    LET close_code == IF Len(payload) >= 2 THEN get_be(SubSeq(payload, 1, 2)) ELSE 1000
        close_reason == IF Len(payload) > 2
                        THEN from_utf8_lossy(SubSeq(payload, 3, Len(payload)))
                        ELSE <<>>
    IN  Msg("Close", close_code, close_reason)

\* next(): "Convert the collected message based on opcode"
CollectedMessage(op, buffer) ==
    CASE op \in {"Text", "None"} -> Msg("Text", NoCode, from_utf8_lossy(buffer))
      [] op = "Binary" -> Msg("Binary", NoCode, buffer)
      [] OTHER -> NoMsg

\* next(): what follows the header loop once frame_buffer holds fb (>= 2 bytes)
NextParsed(fb) ==
    LET r == Parse(fb, metadata.compression_negotiated)
        frame == r.frame
    IN
    IF ~r.ok
    THEN \* Err(_e): go on to the 1024-byte read, with what parse left of the buffer
         /\ pc' = "more"
         /\ frame_buffer' = r.rest
         /\ UNCHANGED <<state, metadata, message_buffer, opcode, ret, outbound>>
    ELSE IF frame.opcode = "Ping"
    THEN \* the write of the Pong succeeds or fails
         \/ /\ pc' = "idle"
              /\ ret' = ReturnErr("Io")
              /\ frame_buffer' = <<>>
              /\ UNCHANGED <<state, metadata, message_buffer, opcode, outbound>>
         \/ /\ outbound' = Append(outbound, to_bytes(FrameNew("Pong", frame.payload)))
              /\ pc' = "hdr"
              /\ frame_buffer' = <<>>
              /\ UNCHANGED <<state, metadata, message_buffer, opcode, ret>>
    ELSE IF frame.opcode = "Pong"
    THEN /\ pc' = "hdr"
         /\ frame_buffer' = <<>>
         /\ UNCHANGED <<state, metadata, message_buffer, opcode, ret, outbound>>
    ELSE IF frame.opcode = "Close"
    THEN /\ state' = "Closing"
         /\ pc' = "idle"
         /\ ret' = Return("Some", CloseMessageOf(frame.payload))
         /\ frame_buffer' = <<>>
         /\ UNCHANGED <<metadata, message_buffer, opcode, outbound>>
    ELSE \* Continuation | Text | Binary
         LET op == IF opcode = "None" THEN frame.opcode ELSE opcode
             buffer == message_buffer \o frame.payload
             message == CollectedMessage(op, buffer)
         IN
         /\ opcode' = op
         /\ message_buffer' = buffer
         /\ frame_buffer' = <<>>
         /\ UNCHANGED <<state, outbound>>
         /\ IF ~frame.fin
            THEN IF frame.opcode # "Continuation"
                 THEN \* "Expected continuation frame"
                      /\ pc' = "idle"
                      /\ ret' = ReturnErr("Other")
                      /\ UNCHANGED metadata
                 ELSE /\ pc' = "hdr"
                      /\ UNCHANGED <<ret, metadata>>
            ELSE IF message = NoMsg
                 THEN \* "Invalid message opcode"
                      /\ pc' = "idle"
                      /\ ret' = ReturnErr("Other")
                      /\ UNCHANGED metadata
                 ELSE /\ pc' = "idle"
                      /\ metadata' = [metadata EXCEPT
                                        !.messages_received = @ + 1,
                                        !.bytes_received = @ + Len(buffer)]
                      /\ ret' = Return("Some", message)

\* next(): one read of the header loop (temp_buf of 2 bytes) and, once two
\* bytes are buffered, everything up to the next read or the return
NextReadHeader ==
    /\ pc = "hdr"
    /\ \/ /\ pc' = "idle"
          /\ ret' = ReturnErr("Io")
          /\ UNCHANGED <<state, metadata, frame_buffer, message_buffer, opcode,
                         inbound, outbound>>
       \/ /\ inbound = <<>>
          /\ peerClosed
          /\ state' = "Closed"
          /\ pc' = "idle"
          /\ ret' = Return("None", NoMsg)
          /\ UNCHANGED <<metadata, frame_buffer, message_buffer, opcode, inbound, outbound>>
       \/ /\ \E n \in 1..Min(2, Len(inbound)) :
                LET fb == frame_buffer \o SubSeq(inbound, 1, n) IN
                /\ inbound' = SubSeq(inbound, n + 1, Len(inbound))
                /\ IF Len(fb) >= 2
                   THEN NextParsed(fb)
                   ELSE /\ frame_buffer' = fb
                        /\ UNCHANGED <<state, metadata, pc, message_buffer, opcode,
                                       ret, outbound>>
    /\ UNCHANGED <<stream, ops, peerClosed, peerFrames, serverVars, apiVars, extVars, libVars>>

\* NextReadMore with an EOF arm that returns None and leaves the state as it
\* was: the variant C14 is checked against
NextReadMore_EofKeepsState ==
    /\ pc = "more"
    /\ \/ /\ pc' = "idle"
          /\ ret' = ReturnErr("Io")
          /\ UNCHANGED <<state, frame_buffer, inbound>>
       \/ /\ inbound = <<>>
          /\ peerClosed
          /\ pc' = "idle"
          /\ ret' = Return("None", NoMsg)
          /\ UNCHANGED <<state, frame_buffer, inbound>>
       \/ /\ \E n \in 1..Min(1024, Len(inbound)) :
                /\ inbound' = SubSeq(inbound, n + 1, Len(inbound))
                /\ frame_buffer' = <<>>
                /\ pc' = "hdr"
                /\ UNCHANGED <<state, ret>>
    /\ UNCHANGED <<stream, metadata, message_buffer, opcode, ops,
                   peerClosed, outbound, peerFrames, serverVars, apiVars, extVars, libVars>>

\* next(): the read that follows a parse error (temp_buf of 1024 bytes); the
\* `continue` after it starts the next turn of the while loop, which begins
\* with a new, empty frame_buffer
NextReadMore ==
    /\ pc = "more"
    /\ \/ /\ pc' = "idle"
          /\ ret' = ReturnErr("Io")
          /\ UNCHANGED <<state, frame_buffer, inbound>>
       \/ /\ inbound = <<>>
          /\ peerClosed
          /\ state' = "Closed"
          /\ pc' = "idle"
          /\ ret' = Return("None", NoMsg)
          /\ UNCHANGED <<frame_buffer, inbound>>
       \/ /\ \E n \in 1..Min(1024, Len(inbound)) :
                /\ inbound' = SubSeq(inbound, n + 1, Len(inbound))
                /\ frame_buffer' = <<>>
                /\ pc' = "hdr"
                /\ UNCHANGED <<state, ret>>
    /\ UNCHANGED <<stream, metadata, message_buffer, opcode, ops,
                   peerClosed, outbound, peerFrames, serverVars, apiVars, extVars, libVars>>

----
\* The peer and the transport.

PayloadAt(i) == IF i = 1 THEN 3 ELSE IF i = 2 THEN 232 ELSE 64 + i

PeerPayload(n) == [i \in 1..n |-> PayloadAt(i)]

\* the frames the peer may write: Frame::new(opcode, payload).fin(fin), which
\* is what the library's client sends (its frames are not masked)
PeerFrameSet ==
    {[FrameNew(op, PeerPayload(n)) EXCEPT !.fin = fin] :
        op \in OpcodeNames, fin \in BOOLEAN, n \in 0..MaxPayloadLen}

PeerWrite(f) ==
    /\ Len(peerFrames) < MaxPeerFrames
    /\ ~peerClosed
    /\ inbound' = inbound \o to_bytes(f)
    /\ peerFrames' = Append(peerFrames, f)
    /\ UNCHANGED <<connVars, peerClosed, outbound, serverVars, apiVars, extVars, libVars>>

PeerClose ==
    /\ ~peerClosed
    /\ peerClosed' = TRUE
    /\ UNCHANGED <<connVars, inbound, outbound, peerFrames, serverVars, apiVars, extVars, libVars>>

\* the messages and close arguments the owner of the connection uses
SendMessages == {Msg("Text", NoCode, <<65>>)}

----
\* The rate limiter (aerosocket-server/src/rate_limit.rs).

MaxStreams == 3
MaxTime == 60
MaxRequestsPerMinute == 2

IPs == {1, 2}

\* RateLimitConfig.window as Server::new sets it
Window == 60

\* the clock advances by one window at a time
TickStep == Window

\* the divisor of "config.max_connections / 10" in Server::new
PerIpDivisor == 10

\* values of ServerConfig.max_connections the model runs with
MaxConnectionsChoices == {1, 10}

NoEntry == -1
NoCounter == [count |-> NoEntry, window_start |-> 0]

\* RateLimitConfig as Server::new builds it from the ServerConfig
RateLimitConfig ==
    [max_requests |-> config.max_requests_per_minute,
     window |-> Window,
     max_connections |-> config.max_connections \div PerIpDivisor]

\* WindowedCounter without the reset of an expired window: the variant C20 is
\* checked against
WindowedCounter_NoReset(ip) ==
    IF request_counters[ip] = NoCounter
    THEN [count |-> 0, window_start |-> now]
    ELSE request_counters[ip]

\* check_request_rate: the counter of ip after entry().or_insert_with and the window reset
WindowedCounter(ip) ==
    LET counter == IF request_counters[ip] = NoCounter
                   THEN [count |-> 0, window_start |-> now]
                   ELSE request_counters[ip]
    IN  IF now - counter.window_start >= RateLimitConfig.window
        THEN [count |-> 0, window_start |-> now]
        ELSE counter

\* RateLimiter::check_request_rate: the value returned and the map it leaves
check_request_rate(ip) ==
    LET counter == WindowedCounter(ip) IN
    IF counter.count >= RateLimitConfig.max_requests
    THEN [ok |-> FALSE, counters |-> [request_counters EXCEPT ![ip] = counter]]
    ELSE [ok |-> TRUE,
          counters |-> [request_counters EXCEPT ![ip] = [counter EXCEPT !.count = @ + 1]]]

\* can_connect that refuses only above the limit: the variant C21 is checked
\* against
can_connect_AboveLimit(ip) ==
    LET current_count == IF connection_counters[ip] = NoEntry THEN 0
                         ELSE connection_counters[ip]
    IN  IF current_count > RateLimitConfig.max_connections
        THEN [ok |-> FALSE, counters |-> [connection_counters EXCEPT ![ip] = current_count]]
        ELSE [ok |-> TRUE, counters |-> [connection_counters EXCEPT ![ip] = current_count + 1]]

\* RateLimiter::can_connect: the value returned and the map it leaves
can_connect(ip) ==
    LET current_count == IF connection_counters[ip] = NoEntry THEN 0
                         ELSE connection_counters[ip]
    IN  IF current_count >= RateLimitConfig.max_connections
        THEN [ok |-> FALSE, counters |-> [connection_counters EXCEPT ![ip] = current_count]]
        ELSE [ok |-> TRUE, counters |-> [connection_counters EXCEPT ![ip] = current_count + 1]]

\* remove_connection that keeps the entry of a peer whose count reaches 0: the
\* variant C19 is checked against
remove_connection_KeepsEntry(ip) ==
    IF connection_counters[ip] = NoEntry THEN connection_counters
    ELSE [connection_counters EXCEPT ![ip] = IF @ > 0 THEN @ - 1 ELSE @]

\* RateLimiter::remove_connection: the map it leaves
remove_connection(ip) ==
    IF connection_counters[ip] = NoEntry THEN connection_counters
    ELSE LET count == IF connection_counters[ip] > 0 THEN connection_counters[ip] - 1
                      ELSE connection_counters[ip]
         IN  [connection_counters EXCEPT ![ip] = IF count = 0 THEN NoEntry ELSE count]

\* the peer's request count and concurrent-connection count as a caller sees them
RequestCount(ip) == WindowedCounter(ip).count
ConcurrentCount(ip) == IF connection_counters[ip] = NoEntry THEN 0 ELSE connection_counters[ip]

----
\* The accept loop and the tasks it spawns (aerosocket-server/src/server.rs).

ServerInit ==
    /\ config \in [max_connections : MaxConnectionsChoices,
                   backpressure_enabled : BOOLEAN,
                   max_requests_per_minute : {MaxRequestsPerMinute}]
    /\ now = 0
    /\ request_counters = [ip \in IPs |-> NoCounter]
    /\ connection_counters = [ip \in IPs |-> NoEntry]
    /\ connections = {}
    /\ next_id = 1
    /\ acceptPc = "accept"
    /\ acceptIp = 1
    /\ checkPre = [count |-> 0, concurrent |-> 0]
    /\ request_ok = FALSE
    /\ tasks = <<>>
    /\ accepted = 0

\* transport.accept() returns a stream from ip; with a rate limiter,
\* check_connection runs its first half, check_request_rate
Accept(ip) ==
    /\ acceptPc = "accept"
    /\ accepted < MaxStreams
    /\ accepted' = accepted + 1
    /\ acceptIp' = ip
    /\ IF config.backpressure_enabled
       THEN LET r == check_request_rate(ip) IN
            /\ checkPre' = [count |-> RequestCount(ip), concurrent |-> ConcurrentCount(ip)]
            /\ request_ok' = r.ok
            /\ request_counters' = r.counters
            /\ acceptPc' = "can_connect"
       ELSE /\ acceptPc' = "limit"
            /\ UNCHANGED <<checkPre, request_ok, request_counters>>
    /\ UNCHANGED <<config, now, connection_counters, connections, next_id, tasks,
                   connVars, wireVars, apiVars, extVars, libVars>>

\* stream.remote_addr() fails: the stream is closed and the loop goes on
AcceptNoAddr ==
    /\ acceptPc = "accept"
    /\ accepted < MaxStreams
    /\ accepted' = accepted + 1
    /\ UNCHANGED <<config, now, request_counters, connection_counters, connections, next_id,
                   acceptPc, acceptIp, checkPre, request_ok, tasks, connVars, wireVars,
                   apiVars, extVars, libVars>>

\* check_connection: its second half, can_connect, and its result
CanConnect ==
    /\ acceptPc = "can_connect"
    /\ LET r == can_connect(acceptIp) IN
       /\ connection_counters' = r.counters
       /\ acceptPc' = IF request_ok /\ r.ok THEN "limit" ELSE "rejected"
    /\ UNCHANGED <<config, now, request_counters, connections, next_id, acceptIp,
                   checkPre, request_ok, tasks, accepted, connVars, wireVars, apiVars,
                   extVars, libVars>>

\* "Rate limit exceeded": the stream is closed and the loop goes on
RejectRateLimited ==
    /\ acceptPc = "rejected"
    /\ acceptPc' = "accept"
    /\ UNCHANGED <<config, now, request_counters, connection_counters, connections, next_id,
                   acceptIp, checkPre, request_ok, tasks, accepted, connVars, wireVars,
                   apiVars, extVars, libVars>>

NewTask(ip) == [ip |-> ip, pc |-> "handshake", id |-> 0, kind |-> "none"]

\* a task that has returned: nothing of it is left but its slot
DoneTask == [ip |-> 0, pc |-> "done", id |-> 0, kind |-> "none"]

\* "Check connection limit", then reject the stream or spawn handle_connection
CheckLimit ==
    /\ acceptPc = "limit"
    /\ acceptPc' = "accept"
    /\ IF Cardinality(connections) >= config.max_connections
       THEN UNCHANGED tasks
       ELSE tasks' = Append(tasks, NewTask(acceptIp))
    /\ UNCHANGED <<config, now, request_counters, connection_counters, connections, next_id,
                   acceptIp, checkPre, request_ok, accepted, connVars, wireVars, apiVars,
                   extVars, libVars>>

\* add_connection without the increment of next_id: the variant C18 is
\* checked against
add_connection_NoIncrement == [id |-> next_id, next_id |-> next_id,
                               connections |-> connections \cup {next_id}]

\* ConnectionManager::add_connection (server.rs): the registry it leaves
add_connection == [id |-> next_id, next_id |-> next_id + 1,
                   connections |-> connections \cup {next_id}]

\* handle_connection: perform_handshake returns Ok, for a WebSocket upgrade
\* ("ws") or from handle_http_request ("http"); the connection is created and
\* registered and the handler is called
HandshakeOk(t, kind) ==
    /\ tasks[t].pc = "handshake"
    /\ LET r == add_connection IN
       /\ next_id' = r.next_id
       /\ connections' = r.connections
       /\ tasks' = [tasks EXCEPT ![t] = [@ EXCEPT !.pc = "handler", !.id = r.id,
                                                   !.kind = kind]]
    /\ UNCHANGED <<config, now, request_counters, connection_counters, acceptPc, acceptIp,
                   checkPre, request_ok, accepted, connVars, wireVars, apiVars, extVars, libVars>>

\* handle_connection: perform_handshake returns Err (bad request, timeout,
\* I/O error) and `?` returns it
HandshakeFail(t) ==
    /\ tasks[t].pc = "handshake"
    /\ tasks' = [tasks EXCEPT ![t] = DoneTask]
    /\ UNCHANGED <<config, now, request_counters, connection_counters, connections, next_id,
                   acceptPc, acceptIp, checkPre, request_ok, accepted, connVars,
                   wireVars, apiVars, extVars, libVars>>

\* handler.handle returns, Ok or Err (the error is only logged)
HandlerReturn(t) ==
    /\ tasks[t].pc = "handler"
    /\ tasks' = [tasks EXCEPT ![t] = [@ EXCEPT !.pc = "remove"]]
    /\ UNCHANGED <<config, now, request_counters, connection_counters, connections, next_id,
                   acceptPc, acceptIp, checkPre, request_ok, accepted, connVars,
                   wireVars, apiVars, extVars, libVars>>

\* handle_connection: connection_manager.remove_connection(connection_id)
RemoveConnection(t) ==
    /\ tasks[t].pc = "remove"
    /\ connections' = connections \ {tasks[t].id}
    /\ tasks' = [tasks EXCEPT ![t] = [@ EXCEPT !.pc = "release"]]
    /\ UNCHANGED <<config, now, request_counters, connection_counters, next_id,
                   acceptPc, acceptIp, checkPre, request_ok, accepted, connVars,
                   wireVars, apiVars, extVars, libVars>>

\* handle_connection: "Clean up rate limiting" and return
ConnectionClosed(t) ==
    /\ tasks[t].pc = "release"
    /\ connection_counters' = IF config.backpressure_enabled
                              THEN remove_connection(tasks[t].ip)
                              ELSE connection_counters
    /\ tasks' = [tasks EXCEPT ![t] = DoneTask]
    /\ UNCHANGED <<config, now, request_counters, connections, next_id,
                   acceptPc, acceptIp, checkPre, request_ok, accepted, connVars,
                   wireVars, apiVars, extVars, libVars>>

Tick ==
    /\ now + TickStep <= MaxTime
    /\ now' = now + TickStep
    /\ UNCHANGED <<config, request_counters, connection_counters, connections, next_id,
                   acceptPc, acceptIp, checkPre, request_ok, tasks, accepted,
                   connVars, wireVars, apiVars, extVars, libVars>>

----
\* The rate limiter called directly, as its tests call it
\* (RateLimitMiddleware::check_connection, connection_closed).

MaxLimiterCalls == 4

\* values of ServerConfig.max_connections for the limiter on its own: per-peer
\* limits of 1 and 3
LimiterMaxConnectionsChoices == {10, 30}

LimiterInit ==
    /\ config \in [max_connections : LimiterMaxConnectionsChoices,
                   backpressure_enabled : {TRUE},
                   max_requests_per_minute : {MaxRequestsPerMinute}]
    /\ now = 0
    /\ request_counters = [ip \in IPs |-> NoCounter]
    /\ connection_counters = [ip \in IPs |-> NoEntry]
    /\ connections = {}
    /\ next_id = 1
    /\ acceptPc = "accept"
    /\ acceptIp = 1
    /\ checkPre = [count |-> 0, concurrent |-> 0]
    /\ request_ok = FALSE
    /\ tasks = <<>>
    /\ accepted = 0

\* one call of the limiter as the log keeps it: what it returned, the time and
\* the two maps when it was made
LimiterCall(op, ip, ok, rate_ok) ==
    [op |-> op, ip |-> ip, ok |-> ok, request_ok |-> rate_ok, now |-> now,
     request_counter |-> request_counters[ip], connection_counters |-> connection_counters]

\* RateLimitMiddleware::check_connection
LimiterCheckConnection(ip) ==
    /\ Len(limiterLog) < MaxLimiterCalls
    /\ LET rate == check_request_rate(ip)
           conn == can_connect(ip)
       IN  /\ request_counters' = rate.counters
           /\ connection_counters' = conn.counters
           /\ limiterLog' = Append(limiterLog,
                   LimiterCall("check_connection", ip, rate.ok /\ conn.ok, rate.ok))
    /\ UNCHANGED <<config, now, connections, next_id, acceptPc, acceptIp, checkPre,
                   request_ok, tasks, accepted, connVars, wireVars,
                   handles, stats, broadcast, sweeps, extVars, libVars>>

\* the calls of ip that admitted it, and its releases that found an entry
Admitted(ip) ==
    {i \in 1..Len(limiterLog) :
        limiterLog[i].op = "check_connection" /\ limiterLog[i].ip = ip /\ limiterLog[i].ok}
Refused(ip) ==
    {i \in 1..Len(limiterLog) :
        limiterLog[i].op = "check_connection" /\ limiterLog[i].ip = ip /\ ~limiterLog[i].ok}
Released(ip) ==
    {i \in 1..Len(limiterLog) :
        /\ limiterLog[i].op = "connection_closed"
        /\ limiterLog[i].ip = ip
        /\ limiterLog[i].connection_counters[ip] # NoEntry}

\* RateLimitMiddleware::connection_closed, called for a connection that was
\* admitted and not released yet, or for a peer the map has no entry for
LimiterConnectionClosed(ip) ==
    /\ Len(limiterLog) < MaxLimiterCalls
    /\ \/ Cardinality(Released(ip)) < Cardinality(Admitted(ip))
       \/ connection_counters[ip] = NoEntry
    /\ connection_counters' = remove_connection(ip)
    /\ limiterLog' = Append(limiterLog, LimiterCall("connection_closed", ip, TRUE, TRUE))
    /\ UNCHANGED <<config, now, request_counters, connections, next_id, acceptPc, acceptIp,
                   checkPre, request_ok, tasks, accepted, connVars, wireVars,
                   handles, stats, broadcast, sweeps, extVars, libVars>>

\* half a window passes
LimiterElapse ==
    /\ now + (Window \div 2) <= MaxTime
    /\ now' = now + (Window \div 2)
    /\ UNCHANGED <<config, request_counters, connection_counters, connections, next_id,
                   acceptPc, acceptIp, checkPre, request_ok, tasks, accepted,
                   connVars, wireVars, apiVars, extVars, libVars>>

----
\* The registry of connection handles: ConnectionManager of server.rs (ids,
\* broadcasts) and of manager.rs (the same map and next_id, with ManagerStats
\* and the idle sweep).  The model keeps one registry for both.

MaxIds == 2
MaxSweeps == 1
MaxBroadcasts == 1

\* the idle_timeout of the server's configuration, in seconds of the model
RegistryIdleTimeout == 30

\* Connection.idle_timeout = None
NoTimeout == -1

\* ConnectionHandle::new around a Connection::with_stream (NoTimeout) or a
\* Connection::with_timeout; locked: a handler task holds the handle's lock;
\* frames: the frames written to the connection's stream
NewHandle(idle_timeout) ==
    [locked |-> FALSE, idle_timeout |-> idle_timeout, last_activity |-> now,
     state |-> "Connected", stream |-> TRUE, frames |-> <<>>]

\* Connection::is_timed_out
is_timed_out(connection) ==
    IF connection.idle_timeout # NoTimeout
    THEN now - connection.last_activity > connection.idle_timeout
    ELSE FALSE

NoBroadcast == [pc |-> "idle", except_id |-> 0, snapshot |-> {}, todo |-> {},
                sent |-> {}, failed |-> {}, calls |-> 0]

RegistryInit ==
    /\ handles = <<>>
    /\ stats = [active_connections |-> 0, total_connections |-> 0, timeout_closures |-> 0,
                error_closures |-> 0, normal_closures |-> 0, peak_connections |-> 0]
    /\ broadcast = NoBroadcast
    /\ sweeps = 0

\* RegistryAdd without the update of peak_connections: the variant C33 is
\* checked against
RegistryAdd_StalePeak(idle_timeout) ==
    /\ next_id <= MaxIds
    /\ LET r == add_connection
           len == Cardinality(r.connections)
       IN  /\ next_id' = r.next_id
           /\ connections' = r.connections
           /\ handles' = Append(handles, NewHandle(idle_timeout))
           /\ stats' = [stats EXCEPT
                          !.active_connections = len,
                          !.total_connections = @ + 1]
    /\ UNCHANGED <<config, now, request_counters, connection_counters, acceptPc, acceptIp,
                   checkPre, request_ok, tasks, accepted, connVars, wireVars,
                   limiterLog, broadcast, sweeps, extVars, libVars>>

\* ConnectionManager::add_connection (manager.rs: with the statistics)
RegistryAdd(idle_timeout) ==
    /\ next_id <= MaxIds
    /\ LET r == add_connection
           len == Cardinality(r.connections)
       IN  /\ next_id' = r.next_id
           /\ connections' = r.connections
           /\ handles' = Append(handles, NewHandle(idle_timeout))
           /\ stats' = [stats EXCEPT
                          !.active_connections = len,
                          !.total_connections = @ + 1,
                          !.peak_connections = IF @ > len THEN @ ELSE len]
    /\ UNCHANGED <<config, now, request_counters, connection_counters, acceptPc, acceptIp,
                   checkPre, request_ok, tasks, accepted, connVars, wireVars,
                   limiterLog, broadcast, sweeps, extVars, libVars>>

\* ConnectionManager::remove_connection(id, reason) (manager.rs): the
\* statistics afterwards
remove_connection_stats(id, reason) ==
    IF id \in connections
    THEN [stats EXCEPT
            !.active_connections = Cardinality(connections \ {id}),
            !.timeout_closures = IF reason = "Timeout" THEN @ + 1 ELSE @,
            !.error_closures = IF reason = "Error" THEN @ + 1 ELSE @,
            !.normal_closures = IF reason = "Normal" THEN @ + 1 ELSE @]
    ELSE stats

RegistryRemove(id, reason) ==
    /\ connections' = connections \ {id}
    /\ stats' = remove_connection_stats(id, reason)
    /\ UNCHANGED <<config, now, request_counters, connection_counters, next_id, acceptPc,
                   acceptIp, checkPre, request_ok, tasks, accepted, connVars, wireVars,
                   limiterLog, handles, broadcast, sweeps, extVars, libVars>>

\* a handler task takes the lock of its handle (handler.rs: try_lock before its
\* loop over next()) or gives it back when it returns
HandlerHolds(id, held) ==
    /\ handles[id].locked # held
    /\ handles' = [handles EXCEPT ![id].locked = held]
    /\ UNCHANGED <<serverVars, connVars, wireVars, limiterLog, stats, broadcast, sweeps,
                   extVars, libVars>>

\* the ids cleanup_idle_connections collects in to_remove
to_remove == {id \in connections : ~handles[id].locked /\ is_timed_out(handles[id])}

\* ConnectionManager::cleanup_idle_connections, one run
Sweep ==
    /\ sweeps < MaxSweeps
    /\ sweeps' = sweeps + 1
    /\ connections' = connections \ to_remove
    /\ stats' = IF to_remove = {} THEN stats
                ELSE [stats EXCEPT
                        !.active_connections = Cardinality(connections \ to_remove),
                        !.timeout_closures = @ + Cardinality(to_remove)]
    /\ UNCHANGED <<config, now, request_counters, connection_counters, next_id, acceptPc,
                   acceptIp, checkPre, request_ok, tasks, accepted, connVars, wireVars,
                   limiterLog, handles, broadcast, extVars, libVars>>

\* broadcast_text_to_all / broadcast_binary_to_all (except_id = 0) and
\* broadcast_text_except / broadcast_binary_except: get_all_connections
BroadcastBegin(except_id) ==
    /\ broadcast.pc = "idle"
    /\ broadcast.calls < MaxBroadcasts
    /\ broadcast' = [pc |-> "loop", except_id |-> except_id, snapshot |-> connections,
                     todo |-> connections, sent |-> {}, failed |-> {},
                     calls |-> broadcast.calls + 1]
    /\ UNCHANGED <<serverVars, connVars, wireVars, limiterLog, handles, stats, sweeps,
                   extVars, libVars>>

\* BroadcastSend without the test against except_id: the variant C16 is
\* checked against
BroadcastSend_NoExcept(id, io) ==
    /\ broadcast.pc = "loop"
    /\ id \in broadcast.todo
    /\ IF handles[id].locked
       THEN /\ io = "ok"
            /\ broadcast' = [broadcast EXCEPT !.todo = @ \ {id}]
            /\ UNCHANGED handles
       ELSE IF io = "ok"
       THEN /\ broadcast' = [broadcast EXCEPT !.todo = @ \ {id}, !.sent = @ \cup {id}]
            /\ handles' = [handles EXCEPT ![id].last_activity = now,
                                          ![id].frames = Append(@, "Text")]
       ELSE /\ broadcast' = [broadcast EXCEPT !.todo = @ \ {id}, !.failed = @ \cup {id}]
            /\ handles' = [handles EXCEPT ![id].last_activity = now]
    /\ UNCHANGED <<serverVars, connVars, wireVars, limiterLog, stats, sweeps, extVars, libVars>>

\* one turn of the loop over the snapshot, for the handle of id: the test
\* against except_id, try_lock, and the send whose result is dropped; io is the
\* outcome of the stream's write
BroadcastSend(id, io) ==
    /\ broadcast.pc = "loop"
    /\ id \in broadcast.todo
    /\ IF id = broadcast.except_id \/ handles[id].locked
       THEN /\ io = "ok"
            /\ broadcast' = [broadcast EXCEPT !.todo = @ \ {id}]
            /\ UNCHANGED handles
       ELSE IF io = "ok"
       THEN /\ broadcast' = [broadcast EXCEPT !.todo = @ \ {id}, !.sent = @ \cup {id}]
            /\ handles' = [handles EXCEPT ![id].last_activity = now,
                                          ![id].frames = Append(@, "Text")]
       ELSE /\ broadcast' = [broadcast EXCEPT !.todo = @ \ {id}, !.failed = @ \cup {id}]
            /\ handles' = [handles EXCEPT ![id].last_activity = now]
    /\ UNCHANGED <<serverVars, connVars, wireVars, limiterLog, stats, sweeps, extVars, libVars>>

\* the loop is over: Ok(())
BroadcastEnd ==
    /\ broadcast.pc = "loop"
    /\ broadcast.todo = {}
    /\ broadcast' = [broadcast EXCEPT !.pc = "Ok"]
    /\ UNCHANGED <<serverVars, connVars, wireVars, limiterLog, handles, stats, sweeps,
                   extVars, libVars>>

----
\* The shutdown signal (aerosocket-server/src/server.rs).

\* The future handed to serve_with_graceful_shutdown completes.  It is passed
\* down to serve_with_tcp_transport as `_shutdown_signal`, which never polls
\* it: the select! of the accept loop has the arms transport.accept() and
\* ctrl_c() only, and graceful_shutdown is called by nothing.  So completing
\* changes no state of the server.
ShutdownSignal ==
    /\ ~shutdown
    /\ shutdown' = TRUE
    /\ UNCHANGED <<connVars, wireVars, serverVars, apiVars, codec, handshake, assembler,
                   libVars>>

----
\* The opening handshake (aerosocket-core/src/handshake.rs, protocol.rs;
\* Server::perform_handshake).  Text is the sequence of its bytes.

HEADER_UPGRADE == <<117, 112, 103, 114, 97, 100, 101>>                 \* "upgrade"
HEADER_CONNECTION == <<99, 111, 110, 110, 101, 99, 116, 105, 111, 110>>    \* "connection"
HEADER_SEC_WEBSOCKET_KEY ==                   \* "sec-websocket-key"
    <<115, 101, 99, 45, 119, 101, 98, 115, 111, 99, 107, 101, 116, 45, 107, 101, 121>>
HEADER_SEC_WEBSOCKET_VERSION ==               \* "sec-websocket-version"
    <<115, 101, 99, 45, 119, 101, 98, 115, 111, 99, 107, 101, 116, 45, 118, 101, 114, 115, 105, 111, 110>>
WEBSOCKET_VERSION == <<49, 51>>                  \* "13"
WEBSOCKET == <<119, 101, 98, 115, 111, 99, 107, 101, 116>>    \* http_value::WEBSOCKET, "websocket"
UPGRADE == <<85, 112, 103, 114, 97, 100, 101>>                   \* http_value::UPGRADE, "Upgrade"
GET == <<71, 69, 84>>                                \* http_method::GET
HTTP_1_1 == <<72, 84, 84, 80, 47, 49, 46, 49>>                \* "HTTP/1.1"
\* the text perform_handshake looks for: "Upgrade: websocket"
UpgradeWebsocketText ==
    <<85, 112, 103, 114, 97, 100, 101, 58, 32, 119, 101, 98, 115, 111, 99, 107, 101, 116>>
\* a key as generate_key makes them: 24 characters of base64 for 16 bytes
SampleKey == [i \in 1..24 |-> IF i > 22 THEN 61 ELSE 65]

IsUpper(c) == c >= 65 /\ c <= 90
IsWhitespace(c) == c \in {9, 10, 13, 32}

\* str::to_lowercase, on ASCII text
to_lowercase(s) == [i \in 1..Len(s) |-> IF IsUpper(s[i]) THEN s[i] + 32 ELSE s[i]]

\* str::contains
contains(s, pat) ==
    \E i \in 0..(Len(s) - Len(pat)) : SubSeq(s, i + 1, i + Len(pat)) = pat

\* position of the first c in s, 0 if there is none
Find(s, c) ==
    IF \E i \in 1..Len(s) : s[i] = c
    THEN CHOOSE i \in 1..Len(s) : s[i] = c /\ \A j \in 1..(i - 1) : s[j] # c
    ELSE 0

\* str::trim
trim(s) ==
    IF \A i \in 1..Len(s) : IsWhitespace(s[i]) THEN <<>>
    ELSE LET a == CHOOSE i \in 1..Len(s) :
                      ~IsWhitespace(s[i]) /\ \A j \in 1..(i - 1) : IsWhitespace(s[j])
             b == CHOOSE i \in 1..Len(s) :
                      ~IsWhitespace(s[i]) /\ \A j \in (i + 1)..Len(s) : IsWhitespace(s[j])
         IN  SubSeq(s, a, b)

\* str::lines: split at "\n", a "\r" before it dropped, no empty last line
RECURSIVE lines(_)
lines(s) ==
    IF s = <<>> THEN <<>>
    ELSE LET n == Find(s, 10) IN
         IF n = 0 THEN <<s>>
         ELSE LET line == SubSeq(s, 1, n - 1)
                  bare == IF line # <<>> /\ line[Len(line)] = 13
                          THEN SubSeq(line, 1, Len(line) - 1) ELSE line
              IN  <<bare>> \o lines(SubSeq(s, n + 1, Len(s)))

\* str::split_whitespace
RECURSIVE split_whitespace(_)
split_whitespace(s) ==
    LET t == trim(s) IN
    IF t = <<>> THEN <<>>
    ELSE IF \E i \in 1..Len(t) : IsWhitespace(t[i])
         THEN LET n == CHOOSE i \in 1..Len(t) :
                           IsWhitespace(t[i]) /\ \A j \in 1..(i - 1) : ~IsWhitespace(t[j])
              IN  <<SubSeq(t, 1, n - 1)>> \o split_whitespace(SubSeq(t, n + 1, Len(t)))
         ELSE <<t>>

Header(key, value) == [key |-> key, value |-> value]

\* HashMap::get on the headers, kept as the sequence of the insertions
HasHeader(headers, key) == \E i \in 1..Len(headers) : headers[i].key = key
GetHeader(headers, key) ==
    headers[CHOOSE i \in 1..Len(headers) :
                headers[i].key = key /\ \A j \in (i + 1)..Len(headers) : headers[j].key # key].value

HandshakeRequest(method, headers) ==
    [method |-> method, uri |-> <<47>>, version |-> HTTP_1_1, headers |-> headers]

\* create_client_handshake("/", default config): the four required headers.
\* `order` stands for the iteration order of the HashMap.
ClientHeaders ==
    <<Header(HEADER_UPGRADE, WEBSOCKET), Header(HEADER_CONNECTION, UPGRADE),
      Header(HEADER_SEC_WEBSOCKET_KEY, SampleKey),
      Header(HEADER_SEC_WEBSOCKET_VERSION, WEBSOCKET_VERSION)>>

HeaderOrders == {p \in [1..4 -> 1..4] : \A i, j \in 1..4 : p[i] = p[j] => i = j}

create_client_handshake(order) ==
    HandshakeRequest(GET, [i \in 1..4 |-> ClientHeaders[order[i]]])

\* request_to_string: the request line and "{key}: {value}" for every header,
\* then one empty line, joined by "\r\n"
RECURSIVE HeaderLines(_)
HeaderLines(headers) ==
    IF headers = <<>> THEN <<>>
    ELSE headers[1].key \o <<58, 32>> \o headers[1].value \o <<13, 10>>
         \o HeaderLines(Tail(headers))

request_to_string(request) ==
    request.method \o <<32>> \o request.uri \o <<32>> \o request.version \o <<13, 10>>
    \o HeaderLines(request.headers)

NoRequest == [ok |-> FALSE, method |-> <<>>, headers |-> <<>>]

\* parse_client_handshake: the method must be GET; header names are
\* lowercased, names and values trimmed; a line without ':' is an error
RECURSIVE ParseHeaders(_)
ParseHeaders(ls) ==
    IF ls = <<>> \/ ls[1] = <<>> THEN [ok |-> TRUE, headers |-> <<>>]
    ELSE LET n == Find(ls[1], 58) IN
         IF n = 0 THEN [ok |-> FALSE, headers |-> <<>>]
         ELSE LET rest == ParseHeaders(Tail(ls))
                  h == Header(to_lowercase(trim(SubSeq(ls[1], 1, n - 1))),
                              trim(SubSeq(ls[1], n + 1, Len(ls[1]))))
              IN  [ok |-> rest.ok, headers |-> <<h>> \o rest.headers]

parse_client_handshake(request) ==
    LET ls == lines(request) IN
    IF ls = <<>> THEN NoRequest
    ELSE LET parts == split_whitespace(ls[1]) IN
         IF Len(parts) < 3 \/ parts[1] # GET THEN NoRequest
         ELSE LET hs == ParseHeaders(Tail(ls)) IN
              IF hs.ok THEN [ok |-> TRUE, method |-> parts[1], headers |-> hs.headers]
              ELSE NoRequest

validate_key(key) == Len(key) = 24
validate_version(version) == version = WEBSOCKET_VERSION

\* validate_client_handshake, under the default HandshakeConfig (no origin,
\* no protocols)
validate_client_handshake(request) ==
    /\ HasHeader(request.headers, HEADER_UPGRADE)
    /\ to_lowercase(GetHeader(request.headers, HEADER_UPGRADE)) = WEBSOCKET
    /\ HasHeader(request.headers, HEADER_CONNECTION)
    /\ contains(to_lowercase(GetHeader(request.headers, HEADER_CONNECTION)), HEADER_UPGRADE)
    /\ HasHeader(request.headers, HEADER_SEC_WEBSOCKET_KEY)
    /\ validate_key(GetHeader(request.headers, HEADER_SEC_WEBSOCKET_KEY))
    /\ HasHeader(request.headers, HEADER_SEC_WEBSOCKET_VERSION)
    /\ validate_version(GetHeader(request.headers, HEADER_SEC_WEBSOCKET_VERSION))

\* perform_handshake on the request text read from the stream: "http" when
\* the text goes to handle_http_request, "websocket" when the 101 response is
\* written, "rejected" when parsing or validation returns an error
perform_handshake(request_str) ==
    IF ~contains(request_str, UpgradeWebsocketText) THEN "http"
    ELSE LET request == parse_client_handshake(request_str) IN
         IF request.ok /\ validate_client_handshake(request) THEN "websocket"
         ELSE "rejected"

\* The requests a peer writes: the Upgrade header spelled in every letter
\* case, naming websocket in three spellings or another protocol, with the
\* other required headers; and the library's own client request.
Casings(word) ==
    {[i \in 1..Len(word) |-> IF up[i] THEN word[i] - 32 ELSE word[i]] :
        up \in [1..Len(word) -> BOOLEAN]}

UpgradeValues ==
    {WEBSOCKET,
     <<87, 101, 98, 83, 111, 99, 107, 101, 116>>,      \* "WebSocket"
     <<87, 69, 66, 83, 79, 67, 75, 69, 84>>,       \* "WEBSOCKET"
     <<104, 50, 99>>}                                    \* "h2c"

PeerRequest(name, value) ==
    HandshakeRequest(GET, <<Header(name, value), Header(HEADER_CONNECTION, UPGRADE),
                            Header(HEADER_SEC_WEBSOCKET_KEY, SampleKey),
                            Header(HEADER_SEC_WEBSOCKET_VERSION, WEBSOCKET_VERSION)>>)

HandshakeRequests ==
    {request_to_string(PeerRequest(name, value)) :
        name \in Casings(HEADER_UPGRADE), value \in UpgradeValues}
    \cup {request_to_string(create_client_handshake(order)) : order \in HeaderOrders}
    \cup {request_to_string(HandshakeRequest(GET, <<>>))}

\* the request names websocket in an Upgrade header, in whatever letter case
NamesWebsocket(request_str) ==
    LET ls == lines(request_str) IN
    \E k \in 2..Len(ls) :
        LET n == Find(ls[k], 58) IN
        /\ n > 0
        /\ to_lowercase(trim(SubSeq(ls[k], 1, n - 1))) = HEADER_UPGRADE
        /\ to_lowercase(trim(SubSeq(ls[k], n + 1, Len(ls[k])))) = WEBSOCKET

\* read_handshake_request returned `request`
HandshakeInit == handshake \in {[pc |-> "request", request |-> r, taken |-> "none"] :
                                   r \in HandshakeRequests}

PerformHandshake ==
    /\ handshake.pc = "request"
    /\ handshake' = [handshake EXCEPT !.pc = "taken",
                                      !.taken = perform_handshake(handshake.request)]
    /\ UNCHANGED <<connVars, wireVars, serverVars, apiVars, shutdown, codec, assembler,
                   libVars>>

----
\* Frame::parse and Frame::to_bytes called directly (aerosocket-core/src/frame.rs).

\* payload lengths of the three length classes: 7-bit, 16-bit, 64-bit
LengthClassLens == {PAYLOAD_LEN_16 - 1, PAYLOAD_LEN_16, U16_MAX + 1}

CodecPayload(n) == [i \in 1..n |-> (i * 7) % 256]

\* the keys rand::random::<[u8; 4]>() may draw, two of them
MaskKeys == {<<1, 2, 3, 4>>, <<255, 0, 170, 85>>}

\* frames built with the constructors and builders of Frame: new, fin, rsv
\* (rsv1 only), mask
BuiltFrame(op, fin, rsv1, payload, key) ==
    LET f == [FrameNew(op, payload) EXCEPT !.fin = fin, !.rsv = <<rsv1, FALSE, FALSE>>]
    IN  IF key = NoMask THEN f ELSE FrameMask(f, key)

CodecFrames ==
    {BuiltFrame(op, fin, rsv1, CodecPayload(n), key) :
        op \in OpcodeNames, fin \in BOOLEAN, rsv1 \in BOOLEAN,
        n \in 0..MaxPayloadLen, key \in {NoMask} \cup MaskKeys}
    \cup {BuiltFrame("Binary", TRUE, FALSE, CodecPayload(n), NoMask) : n \in LengthClassLens}
    \cup {BuiltFrame("Binary", TRUE, FALSE, CodecPayload(n), <<1, 2, 3, 4>>) :
            n \in {m \in LengthClassLens : m <= U16_MAX}}
    \cup {BuiltFrame(op, TRUE, FALSE, CodecPayload(PAYLOAD_LEN_16), NoMask) :
            op \in {"Close", "Ping", "Pong"}}

\* a frame the protocol allows: control frames are final and short, a Close
\* payload is empty or starts with a 2-byte code, no reserved bit without the
\* extension
LegalFrame(f, compression_enabled) ==
    /\ f.opcode \in OpcodeNames
    /\ is_control(f.opcode) => (f.fin /\ Len(f.payload) < PAYLOAD_LEN_16)
    /\ f.opcode = "Close" => Len(f.payload) # 1
    /\ ~f.rsv[2] /\ ~f.rsv[3]
    /\ f.rsv[1] => (compression_enabled /\ is_data(f.opcode))

\* what a caller hands to parse: a whole frame, a frame cut short, a frame
\* followed by the first byte of the next one, or a byte with an opcode that
\* does not exist
CodecInputs ==
    {[frame |-> f, buf |-> to_bytes(f)] : f \in CodecFrames}
    \cup {[frame |-> f, buf |-> SubSeq(to_bytes(f), 1, Len(to_bytes(f)) - 1)] :
            f \in {g \in CodecFrames : Len(g.payload) <= MaxPayloadLen}}
    \cup {[frame |-> f, buf |-> Append(to_bytes(f), FIN_BIT + 1)] :
            f \in {g \in CodecFrames : Len(g.payload) <= MaxPayloadLen}}
    \cup {[frame |-> NoFrame, buf |-> <<FIN_BIT + 3, 0>>]}

NoCodec == [pc |-> "none", frame |-> NoFrame, buf |-> <<>>, compression_enabled |-> FALSE,
            res |-> ParseErr("none", <<>>)]

CodecInit ==
    codec \in {[NoCodec EXCEPT !.pc = "input", !.frame = i.frame, !.buf = i.buf,
                               !.compression_enabled = c] :
                  i \in CodecInputs, c \in BOOLEAN}

\* Frame::parse(&mut buf, compression_enabled): res.rest is buf afterwards
FrameParse ==
    /\ codec.pc = "input"
    /\ codec' = [codec EXCEPT !.pc = "parsed",
                              !.res = Parse(codec.buf, codec.compression_enabled)]
    /\ UNCHANGED <<connVars, wireVars, serverVars, apiVars, shutdown, handshake, assembler,
                   libVars>>

----
\* MessageAssembler (aerosocket-core/src/message.rs).

MaxFeeds == 3

\* the limit a server is configured with (ServerConfig.max_message_size)
max_message_size == 4

\* String::from_utf8 succeeds; as for from_utf8_lossy, the byte strings of the
\* model hold no continuation byte, so every byte above 0x7F is invalid
ValidUtf8(bytes) == \A i \in 1..Len(bytes) : bytes[i] < 128

\* parse_close_payload and Message::close
close_message(payload) ==
    IF Len(payload) < 2 THEN Msg("Close", NoCode, <<>>)
    ELSE Msg("Close", get_be(SubSeq(payload, 1, 2)),
             from_utf8_lossy(SubSeq(payload, 3, Len(payload))))

\* control_frame_to_message
control_frame_to_message(frame) ==
    CASE frame.opcode = "Ping" -> Msg("Ping", NoCode, frame.payload)
      [] frame.opcode = "Pong" -> Msg("Pong", NoCode, frame.payload)
      [] frame.opcode = "Close" -> close_message(frame.payload)

AssembleOk(m) == [ok |-> TRUE, err |-> "none", message |-> m]
AssembleErr(e) == [ok |-> FALSE, err |-> e, message |-> NoMsg]

\* assemble_complete_message on the opcode and buffer of the assembler
assemble_complete_message(a) ==
    CASE a.opcode = "None" -> AssembleErr("Protocol")
      [] a.opcode = "Text" -> IF ValidUtf8(a.buffer)
                              THEN AssembleOk(Msg("Text", NoCode, a.buffer))
                              ELSE AssembleErr("InvalidUtf8")
      [] a.opcode = "Binary" -> AssembleOk(Msg("Binary", NoCode, a.buffer))
      [] OTHER -> AssembleErr("Protocol")

\* reset
reset(a) == [a EXCEPT !.buffer = <<>>, !.opcode = "None", !.assembling = FALSE]

Returned(a, result, err, message) ==
    [a EXCEPT !.result = result, !.err = err, !.message = message]

\* assemble_complete_message()? followed by reset(): `?` returns the error
\* before the reset
Complete(a) ==
    LET r == assemble_complete_message(a) IN
    IF r.ok THEN Returned(reset(a), "Some", "none", r.message)
    ELSE Returned(a, "Err", r.err, NoMsg)

\* feed_frame(frame) on the assembler a: a afterwards, with what was returned
\* ("Some" with the message, "None", or "Err" with the error)
feed_frame(a, frame) ==
    IF is_control(frame.opcode)
    THEN Returned(a, "Some", "none", control_frame_to_message(frame))
    ELSE IF ~frame.fin
    THEN IF ~a.assembling
         THEN Returned([a EXCEPT !.assembling = TRUE, !.opcode = frame.opcode,
                                 !.buffer = a.buffer \o frame.payload],
                       "None", "none", NoMsg)
         ELSE IF frame.opcode # "Continuation"
              THEN Returned(a, "Err", "Protocol", NoMsg)
              ELSE Returned([a EXCEPT !.buffer = a.buffer \o frame.payload],
                            "None", "none", NoMsg)
    ELSE IF a.assembling
         THEN Complete([a EXCEPT !.buffer = a.buffer \o frame.payload])
         ELSE Complete([a EXCEPT !.opcode = frame.opcode, !.buffer = frame.payload])

YieldsDataMessage(a) == a.result = "Some" /\ a.message.kind \in {"Text", "Binary"}

\* MessageAssembler::new (the Default of the struct), with the last frame fed,
\* the buffer and flag it met, and what the call returned
NewAssembler ==
    [buffer |-> <<>>, opcode |-> "None", assembling |-> FALSE,
     frame |-> NoFrame, pre |-> [buffer |-> <<>>, opcode |-> "None", assembling |-> FALSE],
     result |-> "none", err |-> "none", message |-> NoMsg, fed |-> 0, calls |-> 0]

AssemblerInit == assembler = NewAssembler

\* one call of feed_frame.  fed: the payload sizes of the data frames fed
\* since the last data message was yielded.
FeedFrame(frame) ==
    /\ assembler.calls < MaxFeeds
    /\ LET a == feed_frame(assembler, frame) IN
       assembler' = [a EXCEPT !.frame = frame,
                              !.pre = [buffer |-> assembler.buffer,
                                       opcode |-> assembler.opcode,
                                       assembling |-> assembler.assembling],
                              !.fed = IF is_control(frame.opcode) THEN assembler.fed
                                      ELSE IF YieldsDataMessage(a) THEN 0
                                      ELSE assembler.fed + Len(frame.payload),
                              !.calls = assembler.calls + 1]
    /\ UNCHANGED <<connVars, wireVars, serverVars, apiVars, shutdown, codec, handshake,
                   libVars>>

----
\* Subprotocol negotiation (aerosocket-core/src/handshake.rs).

HEADER_SEC_WEBSOCKET_PROTOCOL ==              \* "sec-websocket-protocol"
    <<115, 101, 99, 45, 119, 101, 98, 115, 111, 99, 107, 101, 116, 45, 112, 114, 111, 116, 111, 99, 111, 108>>

\* the subprotocol names of the model: "chat", "mqtt", "soap"
ProtocolNames == {<<99, 104, 97, 116>>, <<109, 113, 116, 116>>, <<115, 111, 97, 112>>}

\* lists of protocols without repetition
ProtocolLists ==
    {l \in UNION {[1..n -> ProtocolNames] : n \in 0..Cardinality(ProtocolNames)} :
        \A i, j \in 1..Len(l) : l[i] = l[j] => i = j}

\* Vec<String>::join(", "), as create_client_handshake writes the header
RECURSIVE join(_)
join(l) ==
    IF l = <<>> THEN <<>>
    ELSE IF Len(l) = 1 THEN l[1]
    ELSE l[1] \o <<44, 32>> \o join(Tail(l))

\* protocol_header.split(',').map(|s| s.trim()).collect()
RECURSIVE split_comma(_)
split_comma(text) ==
    LET n == Find(text, 44) IN
    IF n = 0 THEN <<trim(text)>>
    ELSE <<trim(SubSeq(text, 1, n - 1))>> \o split_comma(SubSeq(text, n + 1, Len(text)))

InList(l, x) == \E i \in 1..Len(l) : l[i] = x

NoProtocol == <<>>

\* create_server_handshake, "Protocol negotiation": the value of the
\* Sec-WebSocket-Protocol header of the response, NoProtocol when the header
\* is not set.  `protocols` is config.protocols, `headers` the request's.
negotiate_protocol(headers, protocols) ==
    IF protocols = <<>> \/ ~HasHeader(headers, HEADER_SEC_WEBSOCKET_PROTOCOL) THEN NoProtocol
    ELSE LET client_protocols ==
                 split_comma(GetHeader(headers, HEADER_SEC_WEBSOCKET_PROTOCOL))
         IN  IF \E i \in 1..Len(protocols) : InList(client_protocols, protocols[i])
             THEN protocols[CHOOSE i \in 1..Len(protocols) :
                                /\ InList(client_protocols, protocols[i])
                                /\ \A j \in 1..(i - 1) : ~InList(client_protocols, protocols[j])]
             ELSE NoProtocol

\* the request headers of a client configured with the protocols `offered`
\* (create_client_handshake: the header is left out when the list is empty)
OfferHeaders(offered) ==
    IF offered = <<>> THEN ClientHeaders
    ELSE Append(ClientHeaders, Header(HEADER_SEC_WEBSOCKET_PROTOCOL, join(offered)))

NoNegotiation == [pc |-> "none", offered |-> <<>>, protocols |-> <<>>, selected |-> NoProtocol]

NegotiationInit ==
    negotiation \in {[NoNegotiation EXCEPT !.pc = "request", !.offered = o, !.protocols = c] :
                        o \in ProtocolLists, c \in ProtocolLists}

CreateServerHandshake ==
    /\ negotiation.pc = "request"
    /\ negotiation' =
          [negotiation EXCEPT
              !.pc = "response",
              !.selected = negotiate_protocol(OfferHeaders(negotiation.offered),
                                              negotiation.protocols)]
    /\ UNCHANGED <<connVars, wireVars, serverVars, apiVars, extVars, client, closeAll, timer,
                   exchange, parser, reg>>

----
\* The client's connection (aerosocket-client/src/connection.rs).

MaxClientOps == 2

\* ClientConnection::with_stream, and what it wrote and returned so far
NewClient ==
    [state |-> "Connected", stream |-> TRUE, written |-> <<>>,
     messages_sent |-> 0, bytes_sent |-> 0, result |-> "none", ops |-> 0]

\* ClientConnection::new: no stream yet
NoClient == [NewClient EXCEPT !.state = "Connecting", !.stream = FALSE]

ClientMessages ==
    {Msg(kind, NoCode, data) : kind \in {"Text", "Binary", "Ping", "Pong"},
                               data \in {<<>>, <<65>>}}

\* ClientConnection::send on the client c; io is the outcome of write_all and
\* flush.  The frame is built as in the server's send and written as built.
client_send(c, m, io) ==
    IF c.stream
    THEN LET frame_bytes == to_bytes(MessageFrame(m)) IN
         IF io = "err" THEN [c EXCEPT !.result = "Err"]
         ELSE [c EXCEPT !.written = Append(c.written, frame_bytes),
                        !.messages_sent = @ + 1,
                        !.bytes_sent = @ + Len(frame_bytes),
                        !.result = "Ok"]
    ELSE [c EXCEPT !.result = "Err"]

ClientInit == client \in {NewClient, NoClient}

ClientStep(c) ==
    /\ client.ops < MaxClientOps
    /\ client' = [c EXCEPT !.ops = client.ops + 1]
    /\ UNCHANGED <<connVars, wireVars, serverVars, apiVars, extVars, negotiation, closeAll,
                   timer, exchange, parser, reg>>

ClientSend(m, io) == ClientStep(client_send(client, m, io))

\* ClientConnection::close: Closing, the Close message sent, then Closed
ClientClose(code, io) ==
    LET c == client_send([client EXCEPT !.state = "Closing"], Msg("Close", code, <<>>), io)
    IN  ClientStep(IF c.result = "Ok" THEN [c EXCEPT !.state = "Closed"] ELSE c)

\* ClientConnection::next reads a Ping with the payload ping_data and answers
\* it: stream.write_all(&Frame::pong(ping_data).to_bytes())
ClientPong(ping_data, io) ==
    /\ client.stream
    /\ ClientStep(IF io = "err" THEN [client EXCEPT !.result = "Err"]
                  ELSE [client EXCEPT
                           !.written = Append(client.written,
                                              to_bytes(FrameNew("Pong", ping_data)))])

----
\* ConnectionManager::close_all_connections (aerosocket-server/src/manager.rs).

MaxCloseAlls == 1

NoCloseAll == [pc |-> "idle", connection_count |-> 0, todo |-> {}, calls |-> 0]

\* the map is locked, the handles and their number are copied, the lock is
\* dropped
CloseAllBegin ==
    /\ closeAll.pc = "idle"
    /\ closeAll.calls < MaxCloseAlls
    /\ closeAll' = [pc |-> "loop", connection_count |-> Cardinality(connections),
                    todo |-> connections, calls |-> closeAll.calls + 1]
    /\ UNCHANGED <<connVars, wireVars, serverVars, apiVars, extVars, negotiation, client,
                   timer, exchange, parser, reg>>

\* one turn of the loop over the copied handles: try_lock, and
\* connection.close(Some(1000), Some("Server shutdown")) with its result
\* dropped; io is the outcome of the stream's write
CloseAllClose(id, io) ==
    /\ closeAll.pc = "loop"
    /\ id \in closeAll.todo
    /\ closeAll' = [closeAll EXCEPT !.todo = @ \ {id}]
    /\ IF handles[id].locked
       THEN io = "ok" /\ UNCHANGED handles
       ELSE IF io = "ok"
       THEN handles' = [handles EXCEPT ![id].last_activity = now,
                                       ![id].state = "Closed",
                                       ![id].frames = Append(@, "Close")]
       ELSE handles' = [handles EXCEPT ![id].last_activity = now,
                                       ![id].state = "Closing"]
    /\ UNCHANGED <<connVars, wireVars, serverVars, limiterLog, stats, broadcast, sweeps,
                   extVars, negotiation, client, timer, exchange, parser, reg>>

\* "Clear all connections and update stats": the map is locked again and
\* cleared, and the number copied at the start is added to normal_closures
CloseAllEnd ==
    /\ closeAll.pc = "loop"
    /\ closeAll.todo = {}
    /\ connections' = {}
    /\ stats' = [stats EXCEPT !.active_connections = 0,
                              !.normal_closures = @ + closeAll.connection_count]
    /\ closeAll' = [closeAll EXCEPT !.pc = "idle"]
    /\ UNCHANGED <<config, now, request_counters, connection_counters, next_id, acceptPc,
                   acceptIp, checkPre, request_ok, tasks, accepted, connVars, wireVars,
                   limiterLog, handles, broadcast, sweeps, extVars, negotiation, client,
                   timer, exchange, parser, reg>>

----
\* Connection::is_timed_out and Connection::time_until_timeout
\* (aerosocket-server connection.rs), on a clock of unit steps.

MaxElapsed == 4
IdleTimeouts == {NoTimeout} \cup (1..3)

\* Option<Duration>::None
None == NoTimeout

\* Connection::time_until_timeout
time_until_timeout(connection) ==
    IF connection.idle_timeout # NoTimeout
    THEN LET elapsed == now - connection.last_activity
         IN  IF elapsed >= connection.idle_timeout
             THEN 0
             ELSE connection.idle_timeout - elapsed
    ELSE None

\* connection: Connection::with_stream at time 0; asked: the two functions
\* were called; e, t: the idle time and the idle_timeout of that call
NewTimer ==
    [connection |-> [idle_timeout |-> NoTimeout, last_activity |-> 0],
     asked |-> FALSE, e |-> 0, t |-> NoTimeout, timed_out |-> FALSE, until |-> None]

\* Connection::set_idle_timeout
SetIdleTimeout(timeout) ==
    /\ timer' = [timer EXCEPT !.connection.idle_timeout = timeout]
    /\ UNCHANGED <<connVars, wireVars, serverVars, apiVars, extVars, negotiation, client,
                   closeAll, exchange, parser, reg, reg>>

\* Connection::update_activity
UpdateActivity ==
    /\ timer' = [timer EXCEPT !.connection.last_activity = now]
    /\ UNCHANGED <<connVars, wireVars, serverVars, apiVars, extVars, negotiation, client,
                   closeAll, exchange, parser, reg, reg>>

\* the clock advances by one unit
Elapse ==
    /\ now < MaxElapsed
    /\ now' = now + 1
    /\ UNCHANGED <<config, request_counters, connection_counters, connections, next_id,
                   acceptPc, acceptIp, checkPre, request_ok, tasks, accepted,
                   connVars, wireVars, apiVars, extVars, libVars>>

\* is_timed_out() and time_until_timeout() at the same instant
AskTimeout ==
    /\ timer' = [timer EXCEPT !.asked = TRUE,
                              !.e = now - timer.connection.last_activity,
                              !.t = timer.connection.idle_timeout,
                              !.timed_out = is_timed_out(timer.connection),
                              !.until = time_until_timeout(timer.connection)]
    /\ UNCHANGED <<connVars, wireVars, serverVars, apiVars, extVars, negotiation, client,
                   closeAll, exchange, parser, reg, reg>>

----
\* The opening handshake between Client::connect (aerosocket-client client.rs)
\* and Server::perform_handshake (aerosocket-server server.rs) over one stream.

HEADER_SEC_WEBSOCKET_ACCEPT ==                \* "sec-websocket-accept"
    <<115, 101, 99, 45, 119, 101, 98, 115, 111, 99, 107, 101, 116, 45,
      97, 99, 99, 101, 112, 116>>
\* the status line of the 101 response
SwitchingProtocolsLine ==
    <<72, 84, 84, 80, 47, 49, 46, 49, 32, 49, 48, 49, 32, 83, 119, 105, 116, 99, 104, 105, 110,
      103, 32, 80, 114, 111, 116, 111, 99, 111, 108, 115>>
\* handle_http_request: the 404 response
NotFoundResponse ==
    <<72, 84, 84, 80, 47, 49, 46, 49, 32, 52, 48, 52, 32, 78, 111, 116, 32, 70, 111, 117, 110,
      100, 13, 10, 67, 111, 110, 116, 101, 110, 116, 45, 76, 101, 110, 103, 116, 104, 58, 32,
      48, 13, 10, 13, 10>>
\* the end of the headers both read loops look for: "\r\n\r\n"
HeaderTerminator == <<13, 10, 13, 10>>
MAX_HEADER_SIZE == 8192

\* compute_accept_key: 28 characters of base64 for the 20 bytes of a SHA-1
SampleAccept == [i \in 1..28 |-> IF i > 27 THEN 61 ELSE 66]

\* create_server_handshake under the default HandshakeConfig: the three
\* required headers
ServerHeaders ==
    <<Header(HEADER_UPGRADE, WEBSOCKET), Header(HEADER_CONNECTION, UPGRADE),
      Header(HEADER_SEC_WEBSOCKET_ACCEPT, SampleAccept)>>

\* response_to_string: the status line and "{key}: {value}" for every header,
\* then one empty line, joined by "\r\n"
response_to_string(headers) ==
    SwitchingProtocolsLine \o <<13, 10>> \o HeaderLines(headers)

\* the sizes a read of the stream may return at most
ReadSizes == {1, 64, 1024}

\* client and server: where each side is; written: the request bytes the client
\* wrote; to_server, to_client: bytes in flight; buffer, client_buffer: what
\* the read loops hold; *_closed: the side dropped its stream
NoExchange ==
    [order |-> <<>>, client |-> "none", server |-> "none", written |-> <<>>,
     to_server |-> <<>>, to_client |-> <<>>, buffer |-> <<>>, client_buffer |-> <<>>,
     client_closed |-> FALSE, server_closed |-> FALSE]

ExchangeInit ==
    exchange \in {[NoExchange EXCEPT !.order = o, !.client = "start", !.server = "reading"] :
                     o \in HeaderOrders}

\* Client::connect: the request is written and flushed
ClientConnect ==
    /\ exchange.client = "start"
    /\ LET request_string == request_to_string(create_client_handshake(exchange.order))
       IN  exchange' = [exchange EXCEPT !.client = "reading",
                                        !.written = request_string,
                                        !.to_server = request_string]
    /\ UNCHANGED <<connVars, wireVars, serverVars, apiVars, extVars, negotiation, client,
                   closeAll, timer, parser, reg, reg>>

\* read_handshake_request: one turn of the loop, with n > 0 or n = 0
ServerRead(size) ==
    /\ exchange.server = "reading"
    /\ exchange.to_server # <<>> \/ exchange.client_closed
    /\ LET n == Min(size, Len(exchange.to_server))
           buffer == exchange.buffer \o SubSeq(exchange.to_server, 1, n)
       IN  exchange' =
              [exchange EXCEPT
                  !.to_server = SubSeq(@, n + 1, Len(@)),
                  !.buffer = buffer,
                  !.server = IF n = 0 \/ contains(buffer, HeaderTerminator) THEN "request"
                             ELSE IF Len(buffer) > MAX_HEADER_SIZE THEN "too large"
                             ELSE "reading",
                  !.server_closed = n # 0 /\ ~contains(buffer, HeaderTerminator)
                                    /\ Len(buffer) > MAX_HEADER_SIZE]
    /\ UNCHANGED <<connVars, wireVars, serverVars, apiVars, extVars, negotiation, client,
                   closeAll, timer, parser, reg, reg>>

\* read_handshake_request: the timeout ends a read that nothing will answer
ServerTimeout ==
    /\ exchange.server = "reading" /\ exchange.client = "reading"
    /\ exchange.to_server = <<>> /\ ~exchange.client_closed
    /\ exchange' = [exchange EXCEPT !.server = "timeout", !.server_closed = TRUE]
    /\ UNCHANGED <<connVars, wireVars, serverVars, apiVars, extVars, negotiation, client,
                   closeAll, timer, parser, reg, reg>>

\* perform_handshake on the request that was read
ServerRespond ==
    /\ exchange.server = "request"
    /\ LET taken == perform_handshake(exchange.buffer)
       IN  exchange' =
              [exchange EXCEPT
                  !.server = taken,
                  !.server_closed = taken = "rejected",
                  !.to_client = IF exchange.client_closed THEN <<>>
                                ELSE IF taken = "http" THEN NotFoundResponse
                                ELSE IF taken = "websocket"
                                     THEN response_to_string(ServerHeaders)
                                     ELSE <<>>]
    /\ UNCHANGED <<connVars, wireVars, serverVars, apiVars, extVars, negotiation, client,
                   closeAll, timer, parser, reg, reg>>

\* Client::connect: one turn of the read loop, with n > 0 or n = 0, then
\* parse_server_handshake and validate_server_handshake
ClientRead(size) ==
    /\ exchange.client = "reading"
    /\ exchange.to_client # <<>> \/ exchange.server_closed
    /\ LET n == Min(size, Len(exchange.to_client))
           buffer == exchange.client_buffer \o SubSeq(exchange.to_client, 1, n)
           done == n = 0 \/ contains(buffer, HeaderTerminator)
           ok == /\ Len(buffer) >= Len(SwitchingProtocolsLine)
                 /\ SubSeq(buffer, 1, Len(SwitchingProtocolsLine)) = SwitchingProtocolsLine
                 /\ contains(to_lowercase(buffer),
                             HEADER_SEC_WEBSOCKET_ACCEPT \o <<58, 32>>
                             \o to_lowercase(SampleAccept))
       IN  exchange' =
              [exchange EXCEPT
                  !.to_client = SubSeq(@, n + 1, Len(@)),
                  !.client_buffer = buffer,
                  !.client = IF n # 0 /\ Len(buffer) > MAX_HEADER_SIZE THEN "too large"
                             ELSE IF ~done THEN "reading"
                             ELSE IF ok THEN "connected" ELSE "error",
                  !.client_closed = (n # 0 /\ Len(buffer) > MAX_HEADER_SIZE) \/ (done /\ ~ok)]
    /\ UNCHANGED <<connVars, wireVars, serverVars, apiVars, extVars, negotiation, client,
                   closeAll, timer, parser, reg, reg>>

\* Client::connect: handshake_timeout ends a read that nothing will answer
ClientTimeout ==
    /\ exchange.client = "reading" /\ exchange.server = "reading"
    /\ exchange.to_server = <<>> /\ exchange.to_client = <<>> /\ ~exchange.server_closed
    /\ exchange' = [exchange EXCEPT !.client = "timeout", !.client_closed = TRUE]
    /\ UNCHANGED <<connVars, wireVars, serverVars, apiVars, extVars, negotiation, client,
                   closeAll, timer, parser, reg, reg>>

----
\* FrameParser (aerosocket-core/src/frame.rs).

\* the sizes of the chunks a caller feeds
ChunkSizes == {1, 2, 3, 200}

\* valid frames: data and control frames, final or not, unmasked or masked,
\* with short payloads, and one frame with a 16-bit length
ParserFrames ==
    {f \in {BuiltFrame(op, fin, FALSE, payload, key) :
               op \in {"Text", "Continuation", "Ping"}, fin \in BOOLEAN,
               payload \in {<<>>, <<72, 105>>}, key \in {NoMask, <<1, 2, 3, 4>>}} :
        LegalFrame(f, FALSE)}
    \cup {BuiltFrame("Binary", TRUE, FALSE, CodecPayload(PAYLOAD_LEN_16), NoMask)}

RECURSIVE Encoding(_)
Encoding(frames) ==
    IF frames = <<>> THEN <<>> ELSE to_bytes(frames[1]) \o Encoding(Tail(frames))

\* FrameParser::extract_frames over try_parse_frame: the results pushed and
\* the buffer afterwards
RECURSIVE extract_frames(_, _)
extract_frames(buffer, compression_enabled) ==
    LET r == Parse(buffer, compression_enabled) IN
    IF r.ok
    THEN LET more == extract_frames(r.rest, compression_enabled)
         IN  [frames |-> <<r>> \o more.frames, buffer |-> more.buffer]
    ELSE IF r.err = "InsufficientData" THEN [frames |-> <<>>, buffer |-> buffer]
    ELSE [frames |-> <<r>>, buffer |-> <<>>]

\* FrameParser::new(); frames: the frames whose encoding is fed; data: the
\* bytes not fed yet; fed: the number of bytes fed; returned: the results of
\* all the calls of feed
NoParser == [frames |-> <<>>, data |-> <<>>, fed |-> 0, buffer |-> <<>>, returned |-> <<>>]

ParserInit ==
    parser \in {[NoParser EXCEPT !.frames = fs, !.data = Encoding(fs)] :
                   fs \in {<<f>> : f \in ParserFrames}
                          \cup {<<f, g>> : f \in ParserFrames, g \in ParserFrames}}

\* FrameParser::feed(data) with the next bytes, at most `size` of them
ParserFeed(size) ==
    /\ parser.data # <<>>
    /\ LET n == Min(size, Len(parser.data))
           r == extract_frames(parser.buffer \o SubSeq(parser.data, 1, n), FALSE)
       IN  parser' = [parser EXCEPT !.data = SubSeq(@, n + 1, Len(@)),
                                    !.fed = @ + n,
                                    !.buffer = r.buffer,
                                    !.returned = @ \o r.frames]
    /\ UNCHANGED <<connVars, wireVars, serverVars, apiVars, extVars, negotiation, client,
                   closeAll, timer, exchange, reg, reg>>

----
\* The locks of the registry (aerosocket-server manager.rs, server.rs): the
\* Mutex around the map of the connections and the Mutex of every
\* ConnectionHandle, with the operations of the manager running as tasks.

MaxRegOps == 2
RegIds == 1..3

\* the operations that take the map lock
RegOps == {"add", "remove", "get", "broadcast", "sweep", "close_all", "monitor"}
\* they copy the handles and drop the map lock before they touch a connection
SnapshotOps == {"broadcast", "close_all"}
\* they walk the map with the map lock held
WalkOps == {"sweep", "monitor"}

\* map_lock: "free" or the operation that holds the map's Mutex; entries: the
\* ids in the map; owner[id]: "free", "handler" (the connection's task holds
\* the handle's Mutex, in a read or a write), or the operation that holds it;
\* pc[op]: "idle", "map" (holding the map lock), "loop" (walking its copy of
\* the handles), "io" (inside send or close on connection cur[op]), "clear"
\* (close_all_connections holding the map lock again); todo[op]: the handles
\* still to visit; to_remove: the sweep's list; started: operations begun
NoReg ==
    [map_lock |-> "free", entries |-> {}, owner |-> [id \in RegIds |-> "free"],
     pc |-> [op \in RegOps |-> "idle"], todo |-> [op \in RegOps |-> {}],
     cur |-> [op \in RegOps |-> 0], to_remove |-> {}, started |-> 0]

\* a registry that add_connection has filled with the first n ids
RegInit == reg \in {[NoReg EXCEPT !.entries = 1..n] : n \in 0..2}

\* `self.connections.lock().await` at the start of an operation
MapLock(op) ==
    /\ reg.pc[op] = "idle" /\ reg.map_lock = "free" /\ reg.started < MaxRegOps
    /\ op = "add" => reg.entries # RegIds
    /\ reg' = [reg EXCEPT !.map_lock = op, !.pc[op] = "map", !.started = @ + 1,
                          !.todo[op] = IF op \in SnapshotOps \cup WalkOps
                                       THEN reg.entries ELSE {},
                          !.to_remove = IF op = "sweep" THEN {} ELSE @]
    /\ UNCHANGED <<connVars, wireVars, serverVars, apiVars, extVars, negotiation, client,
                   closeAll, timer, exchange, parser>>

\* add_connection: insert, then the guard is dropped at the return
AddInsert(id) ==
    /\ reg.pc["add"] = "map" /\ id \notin reg.entries
    /\ \A other \in RegIds \ reg.entries : id <= other
    /\ reg' = [reg EXCEPT !.entries = @ \cup {id}, !.map_lock = "free", !.pc["add"] = "idle"]
    /\ UNCHANGED <<connVars, wireVars, serverVars, apiVars, extVars, negotiation, client,
                   closeAll, timer, exchange, parser>>

\* remove_connection(id): remove, then the guard is dropped at the return
RemoveEntry(id) ==
    /\ reg.pc["remove"] = "map"
    /\ reg' = [reg EXCEPT !.entries = @ \ {id}, !.map_lock = "free",
                          !.pc["remove"] = "idle"]
    /\ UNCHANGED <<connVars, wireVars, serverVars, apiVars, extVars, negotiation, client,
                   closeAll, timer, exchange, parser>>

\* close_all_connections without its drop(connections)
MapUnlock_HeldOverClose(op) ==
    /\ op \in SnapshotOps \cup {"get"} /\ reg.pc[op] = "map"
    /\ reg' = [reg EXCEPT !.map_lock = IF op = "close_all" THEN @ ELSE "free",
                          !.pc[op] = IF op = "get" THEN "idle" ELSE "loop"]
    /\ UNCHANGED <<connVars, wireVars, serverVars, apiVars, extVars, negotiation, client,
                   closeAll, timer, exchange, parser>>

\* get_all_connections returns its copy (the guard is dropped), and
\* close_all_connections calls drop(connections) after its copy
MapUnlock(op) ==
    /\ op \in SnapshotOps \cup {"get"} /\ reg.pc[op] = "map"
    /\ reg' = [reg EXCEPT !.map_lock = "free",
                          !.pc[op] = IF op = "get" THEN "idle" ELSE "loop"]
    /\ UNCHANGED <<connVars, wireVars, serverVars, apiVars, extVars, negotiation, client,
                   closeAll, timer, exchange, parser>>

\* cleanup_idle_connections and monitor_connections: one turn of the loop
\* over the map, `handle.try_lock()`; timed_out: what is_timed_out() answers
WalkTryLock(op, id, timed_out) ==
    /\ op \in WalkOps /\ reg.pc[op] = "map" /\ id \in reg.todo[op]
    /\ reg' = [reg EXCEPT !.todo[op] = @ \ {id},
                          !.to_remove = IF op = "sweep" /\ reg.owner[id] = "free" /\ timed_out
                                        THEN @ \cup {id} ELSE @]
    /\ UNCHANGED <<connVars, wireVars, serverVars, apiVars, extVars, negotiation, client,
                   closeAll, timer, exchange, parser>>

\* the end of the walk: the sweep removes what it collected; the guard is
\* dropped at the return
WalkEnd(op) ==
    /\ op \in WalkOps /\ reg.pc[op] = "map" /\ reg.todo[op] = {}
    /\ reg' = [reg EXCEPT !.entries = IF op = "sweep" THEN @ \ reg.to_remove ELSE @,
                          !.to_remove = {},
                          !.map_lock = "free", !.pc[op] = "idle"]
    /\ UNCHANGED <<connVars, wireVars, serverVars, apiVars, extVars, negotiation, client,
                   closeAll, timer, exchange, parser>>

\* the broadcasts and close_all_connections: one turn of the loop over the
\* copied handles, `handle.try_lock()` and the start of send or close
LoopTryLock(op, id) ==
    /\ op \in SnapshotOps /\ reg.pc[op] = "loop" /\ id \in reg.todo[op]
    /\ IF reg.owner[id] = "free"
       THEN reg' = [reg EXCEPT !.owner[id] = op, !.pc[op] = "io", !.cur[op] = id]
       ELSE reg' = [reg EXCEPT !.todo[op] = @ \ {id}]
    /\ UNCHANGED <<connVars, wireVars, serverVars, apiVars, extVars, negotiation, client,
                   closeAll, timer, exchange, parser>>

\* the write and the flush of send or close return; the guard of the handle
\* is dropped
IoDone(op) ==
    /\ reg.pc[op] = "io"
    /\ reg' = [reg EXCEPT !.owner[reg.cur[op]] = "free", !.pc[op] = "loop",
                          !.todo[op] = @ \ {reg.cur[op]}, !.cur[op] = 0]
    /\ UNCHANGED <<connVars, wireVars, serverVars, apiVars, extVars, negotiation, client,
                   closeAll, timer, exchange, parser>>

\* a broadcast returns after the last handle
BroadcastReturn ==
    /\ reg.pc["broadcast"] = "loop" /\ reg.todo["broadcast"] = {}
    /\ reg' = [reg EXCEPT !.pc["broadcast"] = "idle"]
    /\ UNCHANGED <<connVars, wireVars, serverVars, apiVars, extVars, negotiation, client,
                   closeAll, timer, exchange, parser>>

\* close_all_connections: `self.connections.lock().await` after the loop
CloseAllRelock ==
    /\ reg.pc["close_all"] = "loop" /\ reg.todo["close_all"] = {}
    /\ reg.map_lock \in {"free", "close_all"}
    /\ reg' = [reg EXCEPT !.map_lock = "close_all", !.pc["close_all"] = "clear"]
    /\ UNCHANGED <<connVars, wireVars, serverVars, apiVars, extVars, negotiation, client,
                   closeAll, timer, exchange, parser>>

\* close_all_connections: clear(), then the guard is dropped at the return
CloseAllClear ==
    /\ reg.pc["close_all"] = "clear"
    /\ reg' = [reg EXCEPT !.entries = {}, !.map_lock = "free", !.pc["close_all"] = "idle"]
    /\ UNCHANGED <<connVars, wireVars, serverVars, apiVars, extVars, negotiation, client,
                   closeAll, timer, exchange, parser>>

\* the task of a connection locks its handle for a read or a write, and
\* unlocks it when the stream has answered
HandlerLock(id) ==
    /\ id \in reg.entries /\ reg.owner[id] = "free"
    /\ reg' = [reg EXCEPT !.owner[id] = "handler"]
    /\ UNCHANGED <<connVars, wireVars, serverVars, apiVars, extVars, negotiation, client,
                   closeAll, timer, exchange, parser>>

HandlerUnlock(id) ==
    /\ reg.owner[id] = "handler"
    /\ reg' = [reg EXCEPT !.owner[id] = "free"]
    /\ UNCHANGED <<connVars, wireVars, serverVars, apiVars, extVars, negotiation, client,
                   closeAll, timer, exchange, parser>>

\* the steps of the operation that holds the map lock, up to its release
HolderStep ==
    \/ \E id \in RegIds : AddInsert(id) \/ RemoveEntry(id)
    \/ \E op \in RegOps : MapUnlock(op) \/ WalkEnd(op)
    \/ \E op \in RegOps, id \in RegIds, timed_out \in BOOLEAN : WalkTryLock(op, id, timed_out)
    \/ CloseAllClear

----
\* The core library called directly: state before any call.

NoHandshake == [pc |-> "none", request |-> <<>>, taken |-> "none"]

ExtInit ==
    /\ shutdown = FALSE
    /\ codec = NoCodec
    /\ handshake = NoHandshake
    /\ assembler = NewAssembler

LibInit ==
    /\ negotiation = NoNegotiation
    /\ client = NoClient
    /\ closeAll = NoCloseAll
    /\ timer = NewTimer /\ exchange = NoExchange
    /\ parser = NoParser /\ reg = NoReg
    /\ exchange = NoExchange
    /\ parser = NoParser
    /\ reg = NoReg

----
\* The specifications.

ApiInit == limiterLog = <<>> /\ RegistryInit /\ ExtInit /\ LibInit

ConnConfig == [max_connections |-> 10, backpressure_enabled |-> TRUE,
               max_requests_per_minute |-> MaxRequestsPerMinute]

InitConn == ConnInit /\ WireInit /\ ServerInit /\ ApiInit /\ config = ConnConfig

NextConn ==
    \/ SetStream
    \/ \E m \in SendMessages : Send(m)
    \/ \E code \in {1000} : Close(code, <<>>)
    \/ NextBegin
    \/ NextReadHeader
    \/ NextReadMore
    \/ \E f \in PeerFrameSet : PeerWrite(f)
    \/ PeerClose

SpecConn == InitConn /\ [][NextConn]_vars

InitServer == ServerInit /\ ConnInit /\ WireInit /\ ApiInit /\ state = "Connecting"

NextServer ==
    \/ \E ip \in IPs : Accept(ip)
    \/ AcceptNoAddr
    \/ CanConnect
    \/ RejectRateLimited
    \/ CheckLimit
    \/ \E t \in 1..Len(tasks) : HandshakeOk(t, "ws")
    \/ \E t \in 1..Len(tasks) : HandshakeOk(t, "http")
    \/ \E t \in 1..Len(tasks) : HandshakeFail(t)
    \/ \E t \in 1..Len(tasks) : HandlerReturn(t)
    \/ \E t \in 1..Len(tasks) : RemoveConnection(t)
    \/ \E t \in 1..Len(tasks) : ConnectionClosed(t)
    \/ Tick
    \/ ShutdownSignal

SpecServer == InitServer /\ [][NextServer]_vars

InitLimiter == LimiterInit /\ ConnInit /\ WireInit /\ ApiInit /\ state = "Connecting"

NextLimiter ==
    \/ \E ip \in IPs : LimiterCheckConnection(ip)
    \/ \E ip \in IPs : LimiterConnectionClosed(ip)
    \/ LimiterElapse

SpecLimiter == InitLimiter /\ [][NextLimiter]_vars

InitRegistry == InitServer /\ config = ConnConfig

NextRegistry ==
    \/ \E idle_timeout \in {NoTimeout, RegistryIdleTimeout} : RegistryAdd(idle_timeout)
    \/ \E id \in 1..MaxIds, reason \in {"Timeout", "Error", "Normal"} :
            RegistryRemove(id, reason)
    \/ \E id \in 1..Len(handles), held \in BOOLEAN : HandlerHolds(id, held)
    \/ Sweep
    \/ \E except_id \in 0..MaxIds : BroadcastBegin(except_id)
    \/ \E id \in 1..Len(handles), io \in IoOutcomes : BroadcastSend(id, io)
    \/ BroadcastEnd
    \/ Tick

SpecRegistry == InitRegistry /\ [][NextRegistry]_vars

\* Everything but the core library at rest.
RestInit ==
    /\ ServerInit /\ ConnInit /\ WireInit /\ limiterLog = <<>> /\ RegistryInit
    /\ state = "Connecting" /\ config = ConnConfig /\ shutdown = FALSE

InitHandshake ==
    RestInit /\ HandshakeInit /\ codec = NoCodec /\ assembler = NewAssembler /\ LibInit

NextHandshake == PerformHandshake

SpecHandshake == InitHandshake /\ [][NextHandshake]_vars

InitCodec ==
    RestInit /\ CodecInit /\ handshake = NoHandshake /\ assembler = NewAssembler /\ LibInit

NextCodec == FrameParse

SpecCodec == InitCodec /\ [][NextCodec]_vars

InitAssembler ==
    RestInit /\ AssemblerInit /\ codec = NoCodec /\ handshake = NoHandshake /\ LibInit

NextAssembler == \E frame \in PeerFrameSet : FeedFrame(frame)

SpecAssembler == InitAssembler /\ [][NextAssembler]_vars

InitNegotiation ==
    RestInit /\ ExtInit /\ NegotiationInit /\ client = NoClient /\ closeAll = NoCloseAll
    /\ timer = NewTimer /\ exchange = NoExchange
    /\ parser = NoParser /\ reg = NoReg

NextNegotiation == CreateServerHandshake

SpecNegotiation == InitNegotiation /\ [][NextNegotiation]_vars

InitClient ==
    RestInit /\ ExtInit /\ negotiation = NoNegotiation /\ ClientInit /\ closeAll = NoCloseAll
    /\ timer = NewTimer /\ exchange = NoExchange
    /\ parser = NoParser /\ reg = NoReg

NextClient ==
    \/ \E m \in ClientMessages, io \in IoOutcomes : ClientSend(m, io)
    \/ \E code \in {NoCode, 1000}, io \in IoOutcomes : ClientClose(code, io)
    \/ \E ping_data \in {<<>>, <<65>>}, io \in IoOutcomes : ClientPong(ping_data, io)

SpecClient == InitClient /\ [][NextClient]_vars

InitManager == InitRegistry

NextManager ==
    \/ \E idle_timeout \in {NoTimeout, RegistryIdleTimeout} : RegistryAdd(idle_timeout)
    \/ \E id \in 1..MaxIds, reason \in {"Timeout", "Error", "Normal"} :
            RegistryRemove(id, reason)
    \/ \E id \in 1..Len(handles), held \in BOOLEAN : HandlerHolds(id, held)
    \/ Sweep
    \/ CloseAllBegin
    \/ \E id \in 1..Len(handles), io \in IoOutcomes : CloseAllClose(id, io)
    \/ CloseAllEnd
    \/ Tick

SpecManager == InitManager /\ [][NextManager]_vars

----
\* Claims about the Connection, checked under SpecConn.

\* C1: a connection's state never moves back in the order Connecting,
\* Connected, Closing, Closed, whatever operations are applied to it.
C1_StateNeverMovesBack == [][StateRank(state') >= StateRank(state)]_vars

\* the peer wrote exactly the frame f, every byte of it has been read, and the
\* only operation on the connection is one next() that began in state
\* Connected and met no I/O error
OnlyFrameRead(f) ==
    /\ peerFrames = <<f>>
    /\ inbound = <<>>
    /\ ~peerClosed
    /\ ops = 1
    /\ ret.op = "next"
    /\ ret.from = "Connected"
    /\ ret.res # "Err"

IsAscii(bytes) == \A i \in 1..Len(bytes) : bytes[i] < 128

\* C2: a Text or Binary message written by the peer as one final frame is
\* returned by next() with the same payload, however the transport splits its
\* bytes across reads: once all its bytes are read, next() has returned it.
C2_SingleFrameIsReturned ==
    \A f \in PeerFrameSet :
        (/\ OnlyFrameRead(f)
         /\ f.fin
         /\ f.opcode \in {"Text", "Binary"}
         /\ f.opcode = "Text" => IsAscii(f.payload))
        => /\ ret.res = "Some"
           /\ ret.msg = Msg(f.opcode, NoCode, f.payload)

\* C6: once a Ping frame has been read on a Connected connection, next() has
\* written a Pong with the same payload, nothing else, and has not returned.
C6_PingIsAnsweredWithPong ==
    \A f \in PeerFrameSet :
        (OnlyFrameRead(f) /\ f.fin /\ f.opcode = "Ping")
        => /\ ret.res = "pending"
           /\ outbound = <<to_bytes(FrameNew("Pong", f.payload))>>

\* C7: once a Close frame has been read on a Connected connection, the state is
\* Closing and next() has returned the Close message with the received code
\* and reason.
C7_CloseReadInConnected ==
    \A f \in PeerFrameSet :
        (/\ OnlyFrameRead(f)
         /\ f.fin
         /\ f.opcode = "Close"
         /\ Len(f.payload) # 1)
        => /\ state = "Closing"
           /\ ret.res = "Some"
           /\ ret.msg.kind = "Close"
           /\ Len(f.payload) >= 2 =>
                 /\ ret.msg.code = get_be(SubSeq(f.payload, 1, 2))
                 /\ ret.msg.data = SubSeq(f.payload, 3, Len(f.payload))

\* C8: close() called in state Connected or Closing whose write succeeds has
\* written exactly one frame, the Close frame, and leaves the state Closed.
C8_CloseLeavesClosed ==
    (ret.op = "close" /\ ret.res = "Ok" /\ ret.from \in {"Connected", "Closing"})
    => /\ state = "Closed"
       /\ Len(outbound) = ret.pre.out + 1
       /\ Parse(outbound[Len(outbound)], FALSE).frame.opcode = "Close"

\* C9: when next() returns a Close frame read while the state was Closing, the
\* state is Closed.
C9_CloseReadInClosing ==
    (ret.op = "next" /\ ret.from = "Closing" /\ ret.res = "Some" /\ ret.msg.kind = "Close")
    => state = "Closed"

\* C10: send() called in state Closed fails, writes nothing and leaves
\* messages_sent and bytes_sent as they were.
C10_SendOnClosedFails ==
    (ret.op = "send" /\ ret.from = "Closed")
    => /\ ret.res = "Err"
       /\ Len(outbound) = ret.pre.out
       /\ metadata.messages_sent = ret.pre.messages_sent
       /\ metadata.bytes_sent = ret.pre.bytes_sent

\* the i-th frame the connection wrote
SentFrame(i) == Parse(outbound[i], FALSE).frame

\* C11: after the connection has written a Close frame (by close() or by a
\* Close message given to send), it writes no Text, Binary or Continuation
\* frame.
C11_NoDataFrameAfterClose ==
    \A i, j \in 1..Len(outbound) :
        (i < j /\ SentFrame(i).opcode = "Close")
        => SentFrame(j).opcode \notin {"Text", "Binary", "Continuation"}

\* C12: when send() or next() has returned the I/O error of a stream read,
\* write or flush, the connection state is Closed.
C12_IoErrorClosesConnection ==
    (ret.op \in {"send", "next"} /\ ret.res = "Err" /\ ret.err = "Io")
    => state = "Closed"

\* C13: once next() has read a fragmented control frame (a protocol error), the
\* connection has written a Close frame with code 1002 and its state is Closed.
C13_ProtocolErrorSendsClose ==
    \A f \in PeerFrameSet :
        (OnlyFrameRead(f) /\ is_control(f.opcode) /\ ~f.fin)
        => /\ state = "Closed"
           /\ Len(outbound) = 1
           /\ SentFrame(1).opcode = "Close"
           /\ Len(SentFrame(1).payload) >= 2
           /\ get_be(SubSeq(SentFrame(1).payload, 1, 2)) = 1002

\* C14: a read of next() that returns 0 bytes (the peer has closed and nothing
\* is left to read), at whatever point of a frame or message, sets the state to
\* Closed and makes next() return Ok(None) with no received message counted.
C14_EofClosesAndReturnsNone ==
    [][(/\ pc \in {"hdr", "more"}
        /\ inbound = <<>>
        /\ peerClosed
        /\ ret'.err # "Io")
       => /\ state' = "Closed"
          /\ pc' = "idle"
          /\ ret'.res = "None"
          /\ metadata'.messages_received = ret.pre.messages_received]_vars

\* next() has returned None on an EOF met in the middle of a frame
C14_EofInsideFrame ==
    /\ ret.op = "next"
    /\ ret.res = "None"
    /\ state = "Closed"
    /\ frame_buffer # <<>>
    /\ metadata.messages_received = ret.pre.messages_received

----
\* Claims about the accept loop, checked under SpecServer.

\* C3: the registry never holds more than max_connections entries.
C3_RegistryWithinMaxConnections == Cardinality(connections) <= config.max_connections

\* the tasks of ip that were spawned and have not returned
LiveTasks(ip) == {t \in 1..Len(tasks) : tasks[t].pc # "done" /\ tasks[t].ip = ip}

\* the stream the accept loop holds was admitted by the rate limiter and is
\* neither rejected nor handed to a task yet
HeldAdmitted(ip) == IF acceptPc = "limit" /\ acceptIp = ip THEN 1 ELSE 0

\* C4: with the rate limiter on, a peer's concurrent-connection count is the
\* number of its admitted connections whose handling has not finished.
C4_ConcurrentCountIsLiveConnections ==
    config.backpressure_enabled =>
        \A ip \in IPs : ConcurrentCount(ip) = Cardinality(LiveTasks(ip)) + HeldAdmitted(ip)

\* C5: when check_connection has returned false for a peer, the peer's request
\* count and concurrent-connection count are what they were when it was called.
C5_RejectionChangesNoCount ==
    acceptPc = "rejected" =>
        /\ RequestCount(acceptIp) = checkPre.count
        /\ ConcurrentCount(acceptIp) = checkPre.concurrent

\* C18: ids start at 1; every add_connection returns the current next_id,
\* which is larger than every id handed out before and not in the registry,
\* and stores exactly that id; next_id never decreases, so no id is handed out
\* twice, also after its connection was removed.
C18_IdsAreFreshAndIncreasing ==
    /\ next_id = 1
    /\ [][/\ next_id' >= next_id
          /\ connections' \subseteq 1..(next_id' - 1)
          /\ \A t \in 1..Len(tasks) :
                (tasks[t].pc = "handshake" /\ tasks'[t].pc = "handler")
                => /\ tasks'[t].id = next_id
                   /\ next_id' = next_id + 1
                   /\ connections' = connections \cup {next_id}
                   /\ \A u \in 1..Len(tasks) : tasks[u].id < next_id]_vars

\* id 1 was handed out and removed, id 2 is registered
C18_SecondIdAfterRemoval == next_id = 3 /\ connections = {2}

----
\* Claims about the rate limiter, checked under SpecLimiter.

LastCall == limiterLog[Len(limiterLog)]

GrantedSince(ip, t) ==
    {i \in 1..Len(limiterLog) :
        /\ limiterLog[i].op = "check_connection"
        /\ limiterLog[i].ip = ip
        /\ limiterLog[i].request_ok
        /\ limiterLog[i].now >= t}

\* the call found a counter whose window had run out
WindowExpired(call) ==
    /\ call.op = "check_connection"
    /\ call.request_counter # NoCounter
    /\ call.now - call.request_counter.window_start >= RateLimitConfig.window

\* C20: for each peer, the calls of check_request_rate that returned true since
\* the start of its window are counted by its counter and are at most
\* max_requests; a call made when now - window_start >= window starts a new
\* window at now with the count reset, and is admitted.
C20_AtMostMaxRequestsPerWindow ==
    /\ \A ip \in IPs :
          request_counters[ip] # NoCounter =>
             /\ Cardinality(GrantedSince(ip, request_counters[ip].window_start))
                   = request_counters[ip].count
             /\ request_counters[ip].count <= RateLimitConfig.max_requests
             /\ now - request_counters[ip].window_start >= 0
    /\ (limiterLog # <<>> /\ WindowExpired(LastCall))
       => /\ LastCall.request_ok
          /\ request_counters[LastCall.ip] = [count |-> 1, window_start |-> LastCall.now]

\* a peer that had used up its window is admitted again once the window has
\* run out
C20_AdmittedInNewWindow ==
    /\ limiterLog # <<>>
    /\ WindowExpired(LastCall)
    /\ LastCall.request_counter.count = RateLimitConfig.max_requests
    /\ LastCall.request_ok

----
\* Claims about the registry, checked under SpecRegistry.

\* the connection's idle time exceeds the idle_timeout of the server
Overdue(id) == now - handles[id].last_activity > RegistryIdleTimeout

\* C15: a run of the idle sweep removes every registered connection whose idle
\* time exceeds the server's idle_timeout, also one whose handler holds its
\* lock, counts each in timeout_closures, shuts its stream down, sets its state
\* to Closed and writes no frame to it.
C15_SweepEvictsIdleConnections ==
    [][sweeps' = sweeps + 1 =>
         /\ \A id \in connections :
               Overdue(id) => /\ id \notin connections'
                              /\ handles'[id].state = "Closed"
                              /\ ~handles'[id].stream
                              /\ handles'[id].frames = handles[id].frames
         /\ stats'.timeout_closures =
               stats.timeout_closures + Cardinality({id \in connections : Overdue(id)})]_vars

\* C16: a broadcast takes the registry as its snapshot when it is called, and
\* every frame written while it runs goes to a connection of that snapshot
\* other than except_id, whatever registrations and removals happen meanwhile.
C16_BroadcastSkipsExcepted ==
    [][/\ (broadcast.pc = "idle" /\ broadcast'.pc = "loop")
          => broadcast'.snapshot = connections
       /\ \A id \in 1..Len(handles) :
             handles'[id].frames # handles[id].frames
             => /\ broadcast.pc = "loop"
                /\ id \in broadcast.snapshot
                /\ id # broadcast.except_id]_vars

\* a broadcast except 1 is over: it wrote to 2 and not to 1, whose lock was
\* free, and the registry changed while it ran
C16_ExceptedGotNothing ==
    /\ broadcast.pc = "Ok"
    /\ broadcast.except_id = 1
    /\ broadcast.snapshot = {1, 2}
    /\ broadcast.sent = {2}
    /\ ~handles[1].locked
    /\ handles[1].frames = <<>>
    /\ connections # broadcast.snapshot

\* C17: a broadcast in which a send has failed has attempted the send on every
\* connection of its snapshot (but except_id) when it returns, returns Ok, and
\* no step of it changes the registry.
C17_BroadcastSurvivesFailedSend ==
    [][/\ (broadcast.pc = "loop" /\ broadcast' # broadcast) => connections' = connections
       /\ (broadcast.pc = "loop" /\ broadcast'.pc # "loop" /\ broadcast.failed # {})
          => /\ broadcast'.pc = "Ok"
             /\ broadcast.sent \cup broadcast.failed
                   = broadcast.snapshot \ {broadcast.except_id}]_vars

\* the peer's concurrent-connection count a logged call found
CountBefore(call) ==
    IF call.connection_counters[call.ip] = NoEntry THEN 0
    ELSE call.connection_counters[call.ip]

\* the call is a check_connection whose request-rate half passed, so that its
\* result is the result of can_connect
IsCanConnect(call) == call.op = "check_connection" /\ call.request_ok

\* C21: a peer's concurrent-connection count never exceeds the per-peer limit;
\* can_connect returns false exactly when the count it finds has reached the
\* limit, and then leaves the count as it was; and a can_connect that follows a
\* refusal and one release returns true.
C21_ConcurrentCountWithinLimit ==
    /\ \A ip \in IPs : ConcurrentCount(ip) <= RateLimitConfig.max_connections
    /\ (limiterLog # <<>> /\ IsCanConnect(LastCall))
       => /\ LastCall.ok = (CountBefore(LastCall) < RateLimitConfig.max_connections)
          /\ ConcurrentCount(LastCall.ip)
                = CountBefore(LastCall) + (IF LastCall.ok THEN 1 ELSE 0)
    /\ \A i \in 1..(Len(limiterLog) - 2) :
          (/\ IsCanConnect(limiterLog[i]) /\ ~limiterLog[i].ok
           /\ limiterLog[i + 1].op = "connection_closed"
           /\ limiterLog[i + 1].ip = limiterLog[i].ip
           /\ IsCanConnect(limiterLog[i + 2])
           /\ limiterLog[i + 2].ip = limiterLog[i].ip)
          => limiterLog[i + 2].ok

\* a peer at its limit was refused, released one connection and was admitted
C21_AdmittedAfterRelease ==
    /\ Len(limiterLog) = 4
    /\ \A i \in 1..4 : limiterLog[i].ip = 1
    /\ IsCanConnect(limiterLog[1]) /\ limiterLog[1].ok
    /\ IsCanConnect(limiterLog[2]) /\ ~limiterLog[2].ok
    /\ limiterLog[3].op = "connection_closed"
    /\ IsCanConnect(limiterLog[4]) /\ limiterLog[4].ok

----
\* C22: when the shutdown signal given to serve_with_graceful_shutdown fires,
\* the accept loop stops accepting new streams (and every connection
\* registered at that moment is sent a Close frame with code 1001).  Stated
\* for the accept loop: once the signal has fired no further stream is
\* accepted.
C22_NoAcceptAfterShutdown == [][shutdown => accepted' = accepted]_vars

\* C23: a stream whose first request is not a WebSocket upgrade is never
\* turned into a Connection: it is given no id in the registry and its task
\* never reaches the application handler.
C23_HttpRequestIsNoConnection ==
    \A t \in 1..Len(tasks) :
        tasks[t].kind = "http" => (tasks[t].id = 0 /\ tasks[t].pc # "handler")

----
\* Claims about the opening handshake, checked under SpecHandshake.

\* C24: a request that carries an Upgrade header naming websocket is handled
\* as a WebSocket handshake, not answered as plain HTTP, whatever the letter
\* case of the header name and value.
C24_UpgradeFoundInAnyCase ==
    (handshake.pc = "taken" /\ NamesWebsocket(handshake.request))
        => handshake.taken = "websocket"

----
\* Claims about the frame codec, checked under SpecCodec.

\* C25: whenever Frame::parse returns an error, of whatever kind, the input
\* buffer is left exactly as it was.
C25_ParseErrorConsumesNothing ==
    (codec.pc = "parsed" /\ ~codec.res.ok) => codec.res.rest = codec.buf

\* C26: for every legal frame f, Frame::parse applied to f.to_bytes() returns
\* a frame equal to f in every field, and consumes every byte.
C26_ParseInvertsToBytes ==
    (/\ codec.pc = "parsed"
     /\ LegalFrame(codec.frame, codec.compression_enabled)
     /\ codec.buf = to_bytes(codec.frame))
        => (codec.res.ok /\ codec.res.frame = codec.frame /\ codec.res.rest = <<>>)

\* a server built with ServerBuilder::max_frame_size(65535)
max_frame_size == U16_MAX

\* C37: Frame::parse never returns Ok for a control frame with fin = false or
\* with a payload longer than 125 bytes, nor for a frame whose payload is
\* longer than max_frame_size.
C37_OversizedFramesRejected ==
    (codec.pc = "parsed" /\ codec.res.ok)
        => /\ is_control(codec.res.frame.opcode)
                => (codec.res.frame.fin /\ Len(codec.res.frame.payload) < PAYLOAD_LEN_16)
           /\ Len(codec.res.frame.payload) <= max_frame_size

----
\* Claims about the MessageAssembler, checked under SpecAssembler.

\* the buffer holds a message in progress that can still be completed
WellFormedInProgress(a) == a.assembling /\ a.opcode \in {"Text", "Binary"}

\* C27: after any sequence of feed_frame calls, failed ones included,
\* buffered_bytes() is at most the sum of the payload sizes of the data frames
\* fed since the last yielded message, and the buffer is either empty or holds
\* a well-formed in-progress message; immediately after a call that yields a
\* (data) message buffered_bytes() = 0 and is_assembling() = false.
C27_BufferEmptyOrWellFormed ==
    /\ Len(assembler.buffer) <= assembler.fed
    /\ assembler.buffer = <<>> \/ WellFormedInProgress(assembler)
    /\ YieldsDataMessage(assembler) => (assembler.buffer = <<>> /\ ~assembler.assembling)

\* C28: feeding a Continuation frame while no reassembly is in progress
\* returns a protocol error, for fin = true and fin = false, and does not
\* start a reassembly.
C28_StrayContinuationIsError ==
    (/\ assembler.calls > 0
     /\ assembler.frame.opcode = "Continuation"
     /\ ~assembler.pre.assembling)
        => (assembler.result = "Err" /\ assembler.err = "Protocol" /\ ~assembler.assembling)

\* C29: feeding a Text or Binary frame while a reassembly is in progress
\* returns a protocol error, for fin = true and fin = false, and its payload
\* is not appended to the message being assembled.  Stated for a reassembly
\* that a Text or Binary frame started.
C29_NewMessageInsideReassemblyIsError ==
    (/\ assembler.calls > 0
     /\ assembler.frame.opcode \in {"Text", "Binary"}
     /\ WellFormedInProgress(assembler.pre))
        => (/\ assembler.result = "Err" /\ assembler.err = "Protocol"
            /\ assembler.buffer = assembler.pre.buffer)

\* C30: the bytes buffered for a message under reassembly never exceed
\* max_message_size.  Stated for a reassembly that a Text or Binary frame
\* started.
C30_BufferWithinMaxMessageSize ==
    WellFormedInProgress(assembler) => Len(assembler.buffer) <= max_message_size

----
\* Claims about subprotocol negotiation, checked under SpecNegotiation.

\* the protocols the client offered that the server is configured with, in
\* the client's order
OfferedAndSupported ==
    SelectSeq(negotiation.offered, LAMBDA x : InList(negotiation.protocols, x))

\* C31: when the client offers several subprotocols and more than one is in
\* the server's list, create_server_handshake selects the one that comes
\* first in the client's offered order.
C31_FirstOfferedIsSelected ==
    (negotiation.pc = "response" /\ OfferedAndSupported # <<>>)
        => negotiation.selected = OfferedAndSupported[1]

----
\* Claims about the client's connection, checked under SpecClient.

\* C32: every frame a ClientConnection writes (send, close, the automatic
\* Pong) has the mask bit set.
C32_ClientFramesAreMasked ==
    \A i \in 1..Len(client.written) : BitSet(client.written[i][2], MASK_BIT)

InitTimer ==
    RestInit /\ ExtInit /\ negotiation = NoNegotiation /\ client = NoClient
    /\ closeAll = NoCloseAll /\ timer = NewTimer /\ exchange = NoExchange
    /\ parser = NoParser /\ reg = NoReg

NextTimer ==
    \/ \E timeout \in IdleTimeouts : SetIdleTimeout(timeout)
    \/ UpdateActivity
    \/ Elapse
    \/ AskTimeout

SpecTimer == InitTimer /\ [][NextTimer]_vars

InitExchange ==
    RestInit /\ ExtInit /\ negotiation = NoNegotiation /\ client = NoClient
    /\ closeAll = NoCloseAll /\ timer = NewTimer /\ ExchangeInit /\ parser = NoParser
    /\ reg = NoReg

NextExchange ==
    \/ ClientConnect
    \/ \E size \in ReadSizes : ServerRead(size)
    \/ ServerTimeout
    \/ ServerRespond
    \/ \E size \in ReadSizes : ClientRead(size)
    \/ ClientTimeout

SpecExchange == InitExchange /\ [][NextExchange]_vars

InitParser ==
    RestInit /\ ExtInit /\ negotiation = NoNegotiation /\ client = NoClient
    /\ closeAll = NoCloseAll /\ timer = NewTimer /\ exchange = NoExchange /\ ParserInit
    /\ reg = NoReg

NextParser == \E size \in ChunkSizes : ParserFeed(size)

SpecParser == InitParser /\ [][NextParser]_vars

InitLocks ==
    RestInit /\ ExtInit /\ negotiation = NoNegotiation /\ client = NoClient
    /\ closeAll = NoCloseAll /\ timer = NewTimer /\ exchange = NoExchange
    /\ parser = NoParser /\ RegInit

NextLocks ==
    \/ \E op \in RegOps : MapLock(op)
    \/ \E id \in RegIds : AddInsert(id)
    \/ \E id \in RegIds : RemoveEntry(id)
    \/ \E op \in RegOps : MapUnlock(op)
    \/ \E op \in RegOps, id \in RegIds, timed_out \in BOOLEAN : WalkTryLock(op, id, timed_out)
    \/ \E op \in RegOps : WalkEnd(op)
    \/ \E op \in RegOps, id \in RegIds : LoopTryLock(op, id)
    \/ \E op \in RegOps : IoDone(op)
    \/ BroadcastReturn
    \/ CloseAllRelock
    \/ CloseAllClear
    \/ \E id \in RegIds : HandlerLock(id)
    \/ \E id \in RegIds : HandlerUnlock(id)

SpecLocks == InitLocks /\ [][NextLocks]_vars

----
\* Claims about the manager's statistics, checked under SpecManager.

StatsMatchRegistry ==
    /\ stats.active_connections = Cardinality(connections)
    /\ stats.peak_connections >= stats.active_connections
    /\ stats.total_connections = next_id - 1
    /\ \A id \in (1..MaxIds) \ connections, reason \in {"Timeout", "Error", "Normal"} :
            remove_connection_stats(id, reason) = stats

C40_EveryConnectionCountedOnce ==
    closeAll.pc = "idle"
        => stats.total_connections = stats.active_connections + stats.normal_closures
                                     + stats.timeout_closures + stats.error_closures

----
\* Claims about the idle timeout, checked under SpecTimer.

\* C34: with idle_timeout = Some(t) and idle time e, is_timed_out() is true
\* exactly when e > t, time_until_timeout() is Some(0) exactly when
\* is_timed_out() is true and Some(t - e) > 0 otherwise; with idle_timeout =
\* None, is_timed_out() is false and time_until_timeout() is None.
C34_TimeoutAnswersAgree ==
    timer.asked =>
        IF timer.t # NoTimeout
        THEN /\ timer.timed_out <=> timer.e > timer.t
             /\ timer.until = 0 <=> timer.timed_out
             /\ ~timer.timed_out => timer.until = timer.t - timer.e /\ timer.until > 0
        ELSE ~timer.timed_out /\ timer.until = None

----
\* Claims about the opening handshake, checked under SpecExchange.

\* C35: when the library's client connects to the library's server, the
\* handshake ends successfully on both sides before handshake_timeout: the
\* request the client writes contains the header terminator the server's read
\* loop waits for, the response the server writes contains the terminator the
\* client's read loop waits for, and neither side ends in a timeout.
C35_HandshakeEndsOnBothSides ==
    /\ exchange.client # "start" => contains(exchange.written, HeaderTerminator)
    /\ exchange.server = "websocket" =>
            contains(response_to_string(ServerHeaders), HeaderTerminator)
    /\ exchange.client # "timeout" /\ exchange.server # "timeout"

----
\* Claims about the FrameParser, checked under SpecParser.

\* the number of the frames whose encoding lies wholly in the first n bytes
WholeFrames(frames, n) ==
    Cardinality({k \in 1..Len(frames) : Len(Encoding(SubSeq(frames, 1, k))) <= n})

\* C36: for any sequence of valid frames and any partition of their encoding
\* into chunks fed one at a time, the frames returned over all the calls are
\* the original frames in their order, a frame is returned by the call that
\* brings its last byte and not before, and buffered_bytes() is 0 after the
\* last chunk.
C36_ChunkedFeedReturnsTheFrames ==
    /\ Len(parser.returned) = WholeFrames(parser.frames, parser.fed)
    /\ \A i \in 1..Len(parser.returned) :
            parser.returned[i].ok /\ parser.returned[i].frame = parser.frames[i]
    /\ parser.data = <<>> => parser.buffer = <<>>

----
\* Claims about the registry's locks, checked under SpecLocks.

\* C38: no operation of the registry holds the map lock while a write or a
\* flush of a stream is in progress or while it waits for the lock of a
\* connection: the holder of the map lock is never inside send or close, and
\* whatever locks the connections' tasks hold, the holder can take its next
\* step towards releasing the map lock.
C38_MapLockNeverHeldAcrossIo ==
    /\ \A op \in RegOps : reg.map_lock = op => reg.pc[op] \in {"map", "clear"}
    /\ reg.map_lock # "free" => ENABLED HolderStep

\* add_connection holds the map lock while close_all_connections is inside
\* close on a connection, and the sweep has passed a connection whose task is
\* blocked in its stream
C38_AddDuringCloseIo ==
    /\ reg.map_lock = "add" /\ reg.pc["close_all"] = "io"
    /\ \E id \in reg.entries : reg.owner[id] = "handler"

----
\* Claims about Connection::next and the MessageAssembler, checked under
\* SpecConn.

\* the frames fed one after the other to the assembler a: whether a call
\* returned an error, and the messages yielded before it, Ping and Pong left out
RECURSIVE FeedAll(_, _)
FeedAll(a, frames) ==
    IF frames = <<>> THEN [err |-> FALSE, messages |-> <<>>]
    ELSE LET b == feed_frame(a, frames[1]) IN
         IF b.result = "Err" THEN [err |-> TRUE, messages |-> <<>>]
         ELSE LET rest == FeedAll(b, Tail(frames))
                  yielded == IF b.result = "Some" /\ b.message.kind \notin {"Ping", "Pong"}
                             THEN <<b.message>> ELSE <<>>
              IN  [err |-> rest.err, messages |-> yielded \o rest.messages]

\* C39: for well-formed frames arriving on a connection, what next() returns
\* is what MessageAssembler::feed_frame yields for the same frames with Ping
\* and Pong removed: a message next() returns is one the assembler yields,
\* and next() reports a protocol error only where the assembler reports an
\* error; so Text(fin=false), Continuation(fin=true) is one Text message.
C39_NextYieldsWhatTheAssemblerYields ==
    (/\ stream /\ pc = "idle" /\ ret.op = "next"
     /\ \A i \in 1..Len(peerFrames) : LegalFrame(peerFrames[i], FALSE))
        => LET fed == FeedAll(NewAssembler, peerFrames) IN
           /\ ret.res = "Some" => \E i \in 1..Len(fed.messages) : fed.messages[i] = ret.msg
           /\ (ret.res = "Err" /\ ret.err = "Other") => fed.err
====
